---- MODULE Spec2Model ----
(***************************************************************************)
(* Model of the three command-line analyzers of the repository:           *)
(*   analyze_dockerfile.py, analyze_compose.py and validate_chart.py.     *)
(* Python strings are tuples of one-character strings, so that strip,     *)
(* split, startswith, the `in` substring test and the regular             *)
(* expressions of the source are computed as the source computes them.    *)
(***************************************************************************)
EXTENDS Integers, Sequences, FiniteSets, TLC

VARIABLES tool, argc, pathKind, file, runs, outcome, issues, prevIssues,
          prevOutcome, out, exitCode, calls

vars == <<tool, argc, pathKind, file, runs, outcome, issues, prevIssues,
          prevOutcome, out, exitCode, calls>>

(* ------------------------- Python str primitives ----------------------- *)

LowerCase == <<"a","b","c","d","e","f","g","h","i","j","k","l","m","n","o","p","q","r","s","t","u","v","w","x","y","z">>

UpperCase == <<"A","B","C","D","E","F","G","H","I","J","K","L","M","N","O","P","Q","R","S","T","U","V","W","X","Y","Z">>

DigitChars == <<"0","1","2","3","4","5","6","7","8","9">>

LowerSet == {LowerCase[k] : k \in 1..Len(LowerCase)}

UpperSet == {UpperCase[k] : k \in 1..Len(UpperCase)}

DigitSet == {DigitChars[k] : k \in 1..Len(DigitChars)}

Min(S) == CHOOSE x \in S : \A y \in S : x <= y

Max(S) == CHOOSE x \in S : \A y \in S : y <= x

SpaceSet == {" ", "\t", "\n", "\r", "\f"}

IsSpace(c) == c \in SpaceSet

IsDigit(c) == c \in DigitSet

\* \w of the re module
WordSet == LowerSet \cup UpperSet \cup DigitSet \cup {"_"}

UpChar(c) ==
    IF c \in LowerSet
    THEN UpperCase[CHOOSE k \in 1..Len(LowerCase) : LowerCase[k] = c]
    ELSE c

LowChar(c) ==
    IF c \in UpperSet
    THEN LowerCase[CHOOSE k \in 1..Len(UpperCase) : UpperCase[k] = c]
    ELSE c

\* str.upper()
Upper(s) == [k \in 1..Len(s) |-> UpChar(s[k])]

\* str.lower()
Lower(s) == [k \in 1..Len(s) |-> LowChar(s[k])]

\* sub occurs in s at position p (1-based)
At(s, p, sub) ==
    /\ p >= 1
    /\ p + Len(sub) - 1 <= Len(s)
    /\ \A k \in 1..Len(sub) : s[p + k - 1] = sub[k]

\* `sub in s` on two str
Contains(s, sub) == \E p \in 1..(Len(s) - Len(sub) + 1) : At(s, p, sub)

\* str.startswith
StartsWith(s, prefix) == At(s, 1, prefix)

\* str.strip()
Strip(s) ==
    LET keep == {k \in 1..Len(s) : ~IsSpace(s[k])}
    IN  IF keep = {} THEN <<>> ELSE SubSeq(s, Min(keep), Max(keep))

\* str.split(c) on a one-character separator
Split(s, c) ==
    LET seps == {k \in 1..Len(s) : s[k] = c}
        n == Cardinality(seps)
        sepAt(j) == IF j = 0 THEN 0
                    ELSE IF j = n + 1 THEN Len(s) + 1
                    ELSE CHOOSE k \in seps : Cardinality({m \in seps : m <= k}) = j
    IN  [j \in 1..(n + 1) |-> SubSeq(s, sepAt(j - 1) + 1, sepAt(j) - 1)]

RECURSIVE Join(_, _)
\* sep.join(parts)
Join(parts, sep) ==
    IF parts = <<>> THEN <<>>
    ELSE IF Len(parts) = 1 THEN parts[1]
    ELSE parts[1] \o sep \o Join(Tail(parts), sep)

RECURSIVE ParseInt(_)
\* int(digits)
ParseInt(ds) ==
    IF ds = <<>> THEN 0
    ELSE 10 * ParseInt(SubSeq(ds, 1, Len(ds) - 1))
         + (CHOOSE k \in 0..9 : DigitChars[k + 1] = ds[Len(ds)])

RECURSIVE IntToStr(_)
\* the f-string rendering of a non-negative int
IntToStr(n) ==
    IF n < 10 THEN <<DigitChars[n + 1]>>
    ELSE IntToStr(n \div 10) \o <<DigitChars[(n % 10) + 1]>>

\* end of the longest run of characters of class P(_) that starts at p
RunEnd(s, p, class) ==
    LET stops == {k \in p..Len(s) : s[k] \notin class}
    IN  IF stops = {} THEN Len(s) ELSE Min(stops) - 1

RECURSIVE Concat(_)
Concat(seqs) == IF seqs = <<>> THEN <<>> ELSE Head(seqs) \o Concat(Tail(seqs))

\* the non-empty sequences over S of length at most n
SeqsUpTo(S, n) == UNION {[1..k -> S] : k \in 1..n}

(* ------------------------------- bounds -------------------------------- *)

\* runs of a tool on the same unmodified input
MaxRuns == 2

\* lines of a Dockerfile
MaxLines == 2

\* services of a Compose document
MaxServices == 2

\* lines of a Dockerfile that places a cleanup after an install
MaxWindowLines == 12
(* ----------------------- analyze_dockerfile.py ------------------------- *)

\* the lookahead of the apt cleanup check
AptWindow == 10

\* the UID/GID threshold
LowIdLimit == 10000

\* Issue(line_num, severity, message, suggestion); detail is the
\* interpolated part of an f-string message
DockerIssue(line_num, severity, message, detail, suggestion) ==
    [line_num |-> line_num, severity |-> severity, message |-> message,
     detail |-> detail, suggestion |-> suggestion]

\* content.split('\n')
DockerLines(content) == Split(content, "\n")

CheckSyntaxDirective(lines) ==
    IF ~StartsWith(Strip(lines[1]), <<"#"," ","s","y","n","t","a","x","=">>)
    THEN <<DockerIssue(1, "warning", "Missing BuildKit syntax directive", <<>>,
                       "Add: # syntax=docker/dockerfile:1")>>
    ELSE <<>>

CheckAdd(stripped, i) ==
    IF StartsWith(stripped, <<"A","D","D"," ">>)
    THEN <<DockerIssue(i, "warning", "Using ADD instead of COPY", <<>>,
                       "Use COPY unless you need URL download or tar extraction")>>
    ELSE <<>>

\* [\w/-]
ImageCharSet == WordSet \cup {"/", "-"}

\* re.search(r'FROM\s+[\w/-]+:latest', stripped, re.IGNORECASE)
LatestTagMatch(stripped) ==
    LET u == Upper(stripped)
    IN  \E p \in 1..Len(stripped) :
          /\ At(u, p, <<"F","R","O","M">>)
          /\ p + 4 <= Len(stripped)
          /\ IsSpace(stripped[p + 4])
          /\ LET a == RunEnd(stripped, p + 4, SpaceSet)
                 b == RunEnd(stripped, a + 1, ImageCharSet)
             IN  b >= a + 1 /\ At(u, b + 1, <<":","L","A","T","E","S","T">>)

CheckLatestTag(stripped, i) ==
    IF LatestTagMatch(stripped)
    THEN <<DockerIssue(i, "error", "Using :latest tag", <<>>,
                       "Pin to specific version: alpine:3.19 or SHA256")>>
    ELSE <<>>

\* CleanupInWindow with i taken as the index of the current line in lines
CleanupInWindowFromLine(lines, i) ==
    \E j \in (i - 1)..(Min({i - 1 + AptWindow, Len(lines)}) - 1) :
        Contains(lines[j + 1], <<"r","m"," ","-","r","f"," ","/","v","a","r","/","l","i","b","/","a","p","t","/","l","i","s","t","s">>)

\* any(... in lines[j] for j in range(i, min(i+10, len(lines)))), where
\* lines[j] of the 0-based list is lines[j + 1] here
CleanupInWindow(lines, i) ==
    \E j \in i..(Min({i + AptWindow, Len(lines)}) - 1) :
        Contains(lines[j + 1], <<"r","m"," ","-","r","f"," ","/","v","a","r","/","l","i","b","/","a","p","t","/","l","i","s","t","s">>)

CheckAptCleanup(lines, stripped, i) ==
    IF /\ Contains(stripped, <<"a","p","t","-","g","e","t"," ","i","n","s","t","a","l","l">>)
       /\ ~Contains(stripped, <<"r","m"," ","-","r","f"," ","/","v","a","r","/","l","i","b","/","a","p","t","/","l","i","s","t","s">>)
       /\ ~CleanupInWindow(lines, i)
    THEN <<DockerIssue(i, "warning", "apt-get install without cleanup", <<>>,
                       "Add: && rm -rf /var/lib/apt/lists/* in same RUN")>>
    ELSE <<>>

\* re.search(r'(ARG|ENV)\s+(.*?(PASSWORD|SECRET|TOKEN|KEY))', stripped, re.IGNORECASE)
SecretDeclMatch(stripped) ==
    LET u == Upper(stripped)
    IN  \E p \in 1..Len(stripped) :
          /\ At(u, p, <<"A","R","G">>) \/ At(u, p, <<"E","N","V">>)
          /\ p + 3 <= Len(stripped)
          /\ IsSpace(stripped[p + 3])
          /\ \E q \in (p + 4)..Len(stripped) :
                \/ At(u, q, <<"P","A","S","S","W","O","R","D">>)
                \/ At(u, q, <<"S","E","C","R","E","T">>)
                \/ At(u, q, <<"T","O","K","E","N">>)
                \/ At(u, q, <<"K","E","Y">>)

CheckSecretDecl(stripped, i) ==
    IF SecretDeclMatch(stripped)
    THEN <<DockerIssue(i, "error", "Potential secret in ARG/ENV", <<>>,
                       "Use: RUN --mount=type=secret,id=mysecret")>>
    ELSE <<>>

CheckCacheMounts(stripped, i) ==
    IF StartsWith(stripped, <<"R","U","N"," ">>)
    THEN (IF /\ Contains(stripped, <<"p","i","p"," ","i","n","s","t","a","l","l">>)
             /\ ~Contains(stripped, <<"-","-","m","o","u","n","t","=","t","y","p","e","=","c","a","c","h","e">>)
          THEN <<DockerIssue(i, "info", "pip install without cache mount", <<>>,
                             "Add: RUN --mount=type=cache,target=/root/.cache/pip")>>
          ELSE <<>>)
         \o
         (IF /\ Contains(stripped, <<"n","p","m"," ","i","n","s","t","a","l","l">>) \/ Contains(stripped, <<"y","a","r","n"," ","i","n","s","t","a","l","l">>)
             /\ ~Contains(stripped, <<"-","-","m","o","u","n","t","=","t","y","p","e","=","c","a","c","h","e">>)
          THEN <<DockerIssue(i, "info", "npm/yarn install without cache mount", <<>>,
                             "Add: RUN --mount=type=cache,target=/root/.npm")>>
          ELSE <<>>)
         \o
         (IF /\ Contains(stripped, <<"a","p","t","-","g","e","t">>)
             /\ ~Contains(stripped, <<"-","-","m","o","u","n","t","=","t","y","p","e","=","c","a","c","h","e">>)
          THEN <<DockerIssue(i, "info", "apt-get without cache mount", <<>>,
                             "Add: RUN --mount=type=cache,target=/var/cache/apt")>>
          ELSE <<>>)
    ELSE <<>>

CheckRunCd(stripped, i) ==
    IF StartsWith(stripped, <<"R","U","N"," ","c","d"," ">>)
    THEN <<DockerIssue(i, "warning", "Using RUN cd instead of WORKDIR", <<>>,
                       "Use: WORKDIR /path")>>
    ELSE <<>>

\* the text matched at p by (bookworm|bullseye|buster|jammy|focal|bionic|alpine:3\.\d+),
\* case-insensitively, or <<>> when nothing matches at p
OsVersionAt(s, p) ==
    LET l == Lower(s)
        names == {<<"b","o","o","k","w","o","r","m">>, <<"b","u","l","l","s","e","y","e">>, <<"b","u","s","t","e","r">>, <<"j","a","m","m","y">>, <<"f","o","c","a","l">>, <<"b","i","o","n","i","c">>}
        hit == {w \in names : At(l, p, w)}
    IN  IF hit # {}
        THEN SubSeq(s, p, p + Len(CHOOSE w \in hit : TRUE) - 1)
        ELSE IF At(l, p, <<"a","l","p","i","n","e",":","3",".">>) /\ p + 9 <= Len(s) /\ IsDigit(s[p + 9])
        THEN SubSeq(s, p, RunEnd(s, p + 9, DigitSet))
        ELSE <<>>

CheckOsVersionPin(stripped, i) ==
    LET ps == {p \in 1..Len(stripped) : OsVersionAt(stripped, p) # <<>>}
    IN  IF StartsWith(stripped, <<"F","R","O","M"," ">>) /\ ps # {}
        THEN <<DockerIssue(i, "warning", "Base image pins OS version",
                           OsVersionAt(stripped, Min(ps)),
                           "Consider using version tag without OS release (e.g., python:3.12-slim instead of python:3.12-slim-bookworm) for automatic security updates")>>
        ELSE <<>>

\* -<flag>\s+\d at position q
FlagNumberAt(s, q, flag) ==
    /\ At(s, q, <<"-", flag>>)
    /\ q + 2 <= Len(s)
    /\ IsSpace(s[q + 2])
    /\ LET a == RunEnd(s, q + 2, SpaceSet)
       IN  a + 1 <= Len(s) /\ IsDigit(s[a + 1])

\* the digits of group 2 of re.search(r'(kw1|kw2).*?-<flag>\s+(\d+)', s), or <<>>
\* when the pattern does not match; kw1 and kw2 have the same length
IdMatch(s, kw1, kw2, flag) ==
    LET starts == {p \in 1..Len(s) :
                     /\ At(s, p, kw1) \/ At(s, p, kw2)
                     /\ \E q \in (p + Len(kw1))..Len(s) : FlagNumberAt(s, q, flag)}
    IN  IF starts = {} THEN <<>>
        ELSE LET p0 == Min(starts)
                 q0 == Min({q \in (p0 + Len(kw1))..Len(s) : FlagNumberAt(s, q, flag)})
                 d0 == RunEnd(s, q0 + 2, SpaceSet) + 1
             IN  SubSeq(s, d0, RunEnd(s, d0, DigitSet))

CheckLowUid(stripped, i) ==
    LET digits == IdMatch(stripped, <<"u","s","e","r","a","d","d">>, <<"a","d","d","u","s","e","r">>, "u")
    IN  IF digits # <<>> /\ ParseInt(digits) < LowIdLimit
        THEN <<DockerIssue(i, "warning", "User created with UID (< 10000)",
                           IntToStr(ParseInt(digits)),
                           "Consider using UID >10000 to avoid conflicts with host system users")>>
        ELSE <<>>

CheckLowGid(stripped, i) ==
    LET digits == IdMatch(stripped, <<"g","r","o","u","p","a","d","d">>, <<"a","d","d","g","r","o","u","p">>, "g")
    IN  IF digits # <<>> /\ ParseInt(digits) < LowIdLimit
        THEN <<DockerIssue(i, "warning", "Group created with GID (< 10000)",
                           IntToStr(ParseInt(digits)),
                           "Consider using GID >10000 to avoid conflicts with host system users")>>
        ELSE <<>>

CheckImplicitId(stripped, i) ==
    IF /\ \/ Contains(stripped, <<"u","s","e","r","a","d","d">>)
          \/ Contains(stripped, <<"a","d","d","u","s","e","r">>)
          \/ Contains(stripped, <<"g","r","o","u","p","a","d","d">>)
          \/ Contains(stripped, <<"a","d","d","g","r","o","u","p">>)
       /\ ~\E q \in 1..Len(stripped) :
              FlagNumberAt(stripped, q, "u") \/ FlagNumberAt(stripped, q, "g")
    THEN <<DockerIssue(i, "info", "User/group created without explicit UID/GID", <<>>,
                       "Consider explicit UID/GID >10000 if consistent permissions across environments are needed")>>
    ELSE <<>>

CheckUserRoot(stripped, i) ==
    IF StartsWith(stripped, <<"U","S","E","R"," ","r","o","o","t">>)
    THEN <<DockerIssue(i, "warning", "Running as root user", <<>>,
                       "Create and use non-root user for security")>>
    ELSE <<>>

\* one iteration of the loop over enumerate(lines, 1)
DockerLineIssues(lines, i) ==
    LET stripped == Strip(lines[i])
    IN  IF stripped = <<>> \/ StartsWith(stripped, <<"#">>)
        THEN <<>>
        ELSE CheckAdd(stripped, i)
             \o CheckLatestTag(stripped, i)
             \o CheckAptCleanup(lines, stripped, i)
             \o CheckSecretDecl(stripped, i)
             \o CheckCacheMounts(stripped, i)
             \o CheckRunCd(stripped, i)
             \o CheckOsVersionPin(stripped, i)
             \o CheckLowUid(stripped, i)
             \o CheckLowGid(stripped, i)
             \o CheckImplicitId(stripped, i)
             \o CheckUserRoot(stripped, i)

CheckNoNonRootUser(lines) ==
    IF ~\E k \in 1..Len(lines) :
            /\ StartsWith(Strip(lines[k]), <<"U","S","E","R"," ">>)
            /\ ~Contains(Lower(lines[k]), <<"r","o","o","t">>)
    THEN <<DockerIssue(Len(lines), "warning", "No non-root USER defined", <<>>,
                       "Add: RUN adduser -D appuser && USER appuser")>>
    ELSE <<>>

analyze_dockerfile(content) ==
    LET lines == DockerLines(content)
    IN  CheckSyntaxDirective(lines)
        \o Concat([i \in 1..Len(lines) |-> DockerLineIssues(lines, i)])
        \o CheckNoNonRootUser(lines)

(* ------------------------- parsed YAML values -------------------------- *)

\* what yaml.safe_load returns: None, str, int, bool, list, dict (a dict is
\* the sequence of its items in document order, keys are str)
Null == [t |-> "null", v |-> <<>>]

Str(s) == [t |-> "str", v |-> s]

IntV(n) == [t |-> "int", v |-> n]

Bool(b) == [t |-> "bool", v |-> b]

List(items) == [t |-> "list", v |-> items]

Item(key, value) == [k |-> key, v |-> value]

Map(items) == [t |-> "map", v |-> items]

HasKey(m, key) == \E k \in 1..Len(m.v) : m.v[k].k = key

\* m[key] of a dict that has the key
Get(m, key) == m.v[CHOOSE k \in 1..Len(m.v) : m.v[k].k = key].v

\* `x in v` raises TypeError: argument of type ... is not iterable
InRaises(v) == v.t \in {"null", "int", "bool"}

\* `x in v` for a str x: key of a dict, element of a list, substring of a str
PyIn(x, v) ==
    CASE v.t = "map" -> HasKey(v, x)
      [] v.t = "list" -> \E k \in 1..Len(v.v) : v.v[k].t = "str" /\ v.v[k].v = x
      [] v.t = "str" -> Contains(v.v, x)
      [] OTHER -> FALSE

\* v['key'] raises TypeError and v.get, v.items(), v.keys(), v.values()
\* raise AttributeError on anything but a dict
NotADict(v) == v.t # "map"

\* `for x in v` raises TypeError: object is not iterable
NotIterable(v) == v.t \in {"null", "int", "bool"}

\* the values `for x in v` visits: the items of a list, the characters of a
\* str, the keys of a dict
Elements(v) ==
    CASE v.t = "list" -> v.v
      [] v.t = "str" -> [k \in 1..Len(v.v) |-> Str(<<v.v[k]>>)]
      [] v.t = "map" -> [k \in 1..Len(v.v) |-> Str(v.v[k].k)]

\* v == s for a str literal s
StrEq(v, s) == v.t = "str" /\ v.v = s

\* m.get(key, default) of a dict
GetOr(m, key, default) == IF HasKey(m, key) THEN Get(m, key) ELSE default

\* bool(v)
Truthy(v) ==
    CASE v.t = "null" -> FALSE
      [] v.t = "bool" -> v.v
      [] v.t = "int" -> v.v # 0
      [] OTHER -> v.v # <<>>

\* str(v) of a scalar (the inputs interpolate scalars only)
Render(v) ==
    CASE v.t = "str" -> v.v
      [] v.t = "int" -> IntToStr(v.v)
      [] v.t = "bool" -> IF v.v THEN <<"T","r","u","e">> ELSE <<"F","a","l","s","e">>
      [] v.t = "null" -> <<"N","o","n","e">>

(* ---------- evaluation that an uncaught exception can cut short -------- *)

\* the issues appended so far, and whether an exception was raised
Ok(iss) == [fault |-> FALSE, issues |-> iss]

Raised == [fault |-> TRUE, issues |-> <<>>]

\* run the steps rs[1], rs[2], ... in order, up to the first that raises
InOrder(rs) ==
    LET bad == {k \in 1..Len(rs) : rs[k].fault}
        last == IF bad = {} THEN Len(rs) ELSE Min(bad)
    IN  [fault |-> bad # {}, issues |-> Concat([k \in 1..last |-> rs[k].issues])]

(* ------------------------- analyze_compose.py -------------------------- *)

ComposeIssue(location, severity, message, detail, suggestion) ==
    [location |-> location, severity |-> severity, message |-> message,
     detail |-> detail, suggestion |-> suggestion]

CheckVersionKey(compose_data) ==
    IF InRaises(compose_data) THEN Raised
    ELSE IF PyIn(<<"v","e","r","s","i","o","n">>, compose_data)
    THEN Ok(<<ComposeIssue(<<"R","o","o","t">>, "warning", "Deprecated \"version:\" field found", <<>>,
                           "Remove \"version:\" field - it's deprecated since Compose V2. Use Compose Specification instead.")>>)
    ELSE Ok(<<>>)

\* NoServicesIssue reported as a warning
NoServicesWarning ==
    ComposeIssue(<<"R","o","o","t">>, "warning", "No \"services:\" section found", <<>>,
                 "Compose file must have a \"services:\" section")

NoServicesIssue ==
    ComposeIssue(<<"R","o","o","t">>, "error", "No \"services:\" section found", <<>>,
                 "Compose file must have a \"services:\" section")

CheckContainerName(service_config, location) ==
    IF InRaises(service_config) THEN Raised
    ELSE IF ~PyIn(<<"c","o","n","t","a","i","n","e","r","_","n","a","m","e">>, service_config) THEN Ok(<<>>)
    ELSE IF NotADict(service_config) THEN Raised
    ELSE Ok(<<ComposeIssue(location, "warning", "Using container_name",
                           Render(Get(service_config, <<"c","o","n","t","a","i","n","e","r","_","n","a","m","e">>)),
                           "Avoid container_name - it prevents scaling with --scale. Let Compose generate names automatically.")>>)

CheckImageTag(service_config, location) ==
    IF InRaises(service_config) THEN Raised
    ELSE IF ~PyIn(<<"i","m","a","g","e">>, service_config) THEN Ok(<<>>)
    ELSE IF NotADict(service_config) THEN Raised
    ELSE LET image == Get(service_config, <<"i","m","a","g","e">>)
         IN  IF InRaises(image) THEN Raised
             ELSE IF PyIn(<<":","l","a","t","e","s","t">>, image) \/ ~PyIn(<<":">>, image)
             THEN Ok(<<ComposeIssue(location, "error", "Using :latest or untagged image",
                                    Render(image),
                                    "Pin to specific version (e.g., myapp:1.2.3) for reproducible deployments")>>)
             ELSE Ok(<<>>)

\* any(word in str(service_config.get('command', '')) for word in ['sleep', 'tail', 'watch'])
IdleCommand(service_config) ==
    LET text == Render(Get(service_config, <<"c","o","m","m","a","n","d">>))
    IN  Contains(text, <<"s","l","e","e","p">>) \/ Contains(text, <<"t","a","i","l">>) \/ Contains(text, <<"w","a","t","c","h">>)

CheckHealthcheck(service_config, location) ==
    LET issue == ComposeIssue(location, "info", "No healthcheck defined", <<>>,
                              "Add healthcheck for better service dependency management")
    IN  IF InRaises(service_config) THEN Raised
        ELSE IF PyIn(<<"h","e","a","l","t","h","c","h","e","c","k">>, service_config) THEN Ok(<<>>)
        ELSE IF ~PyIn(<<"c","o","m","m","a","n","d">>, service_config) THEN Ok(<<issue>>)
        ELSE IF NotADict(service_config) THEN Raised
        ELSE IF ~IdleCommand(service_config) THEN Ok(<<issue>>)
        ELSE Ok(<<>>)

\* CheckRestart with the membership test inverted
CheckRestartInverted(service_config, location) ==
    IF InRaises(service_config) THEN Raised
    ELSE IF PyIn(<<"r","e","s","t","a","r","t">>, service_config)
    THEN Ok(<<ComposeIssue(location, "info", "No restart policy defined", <<>>,
                           "Add \"restart: unless-stopped\" or appropriate policy")>>)
    ELSE Ok(<<>>)

CheckRestart(service_config, location) ==
    IF InRaises(service_config) THEN Raised
    ELSE IF ~PyIn(<<"r","e","s","t","a","r","t">>, service_config)
    THEN Ok(<<ComposeIssue(location, "info", "No restart policy defined", <<>>,
                           "Add \"restart: unless-stopped\" or appropriate policy")>>)
    ELSE Ok(<<>>)

\* item.split('=')[0], item.split('=')[1] if '=' in item else ''
EnvListItem(item) ==
    Item(Split(item, "=")[1],
         Str(IF Contains(item, <<"=">>) THEN Split(item, "=")[2] ELSE <<>>))

\* the body of `for key, value in env_items` for one item
CheckEnvItem(key, value, location) ==
    LET up == Upper(key)
    IN  IF \/ Contains(up, <<"P","A","S","S","W","O","R","D">>)
           \/ Contains(up, <<"S","E","C","R","E","T">>)
           \/ Contains(up, <<"T","O","K","E","N">>)
           \/ Contains(up, <<"K","E","Y">>)
           \/ Contains(up, <<"A","P","I","_","K","E","Y">>)
        THEN IF ~Truthy(value) THEN Ok(<<>>)
             ELSE IF value.t # "str" THEN Raised
             ELSE IF ~StartsWith(value.v, <<"$">>)
             THEN Ok(<<ComposeIssue(location \o <<".","e","n","v","i","r","o","n","m","e","n","t",".">> \o key, "error",
                                    "Potential secret in environment variable", key,
                                    "Use secrets or env_file instead. Never commit secrets to version control.")>>)
             ELSE Ok(<<>>)
        ELSE Ok(<<>>)

CheckEnvironment(service_config, location) ==
    IF InRaises(service_config) THEN Raised
    ELSE IF ~PyIn(<<"e","n","v","i","r","o","n","m","e","n","t">>, service_config) THEN Ok(<<>>)
    ELSE IF NotADict(service_config) THEN Raised
    ELSE LET env_vars == Get(service_config, <<"e","n","v","i","r","o","n","m","e","n","t">>)
         IN  IF env_vars.t = "map"
             THEN InOrder([k \in 1..Len(env_vars.v) |->
                             CheckEnvItem(env_vars.v[k].k, env_vars.v[k].v, location)])
             ELSE IF env_vars.t = "list"
             THEN IF \E k \in 1..Len(env_vars.v) : env_vars.v[k].t # "str"
                  THEN Raised
                  ELSE InOrder([k \in 1..Len(env_vars.v) |->
                                  CheckEnvItem(EnvListItem(env_vars.v[k].v).k,
                                               EnvListItem(env_vars.v[k].v).v, location)])
             ELSE Ok(<<>>)

CheckResources(service_config, location) ==
    LET issue == ComposeIssue(location, "info", "No resource limits defined", <<>>,
                              "Add deploy.resources.limits to prevent resource exhaustion")
    IN  IF InRaises(service_config) THEN Raised
        ELSE IF ~PyIn(<<"d","e","p","l","o","y">>, service_config) THEN Ok(<<issue>>)
        ELSE IF NotADict(service_config) THEN Raised
        ELSE IF InRaises(Get(service_config, <<"d","e","p","l","o","y">>)) THEN Raised
        ELSE IF ~PyIn(<<"r","e","s","o","u","r","c","e","s">>, Get(service_config, <<"d","e","p","l","o","y">>)) THEN Ok(<<issue>>)
        ELSE Ok(<<>>)

CheckPrivileged(service_config, location) ==
    IF NotADict(service_config) THEN Raised
    ELSE IF Truthy(GetOr(service_config, <<"p","r","i","v","i","l","e","g","e","d">>, Null))
    THEN Ok(<<ComposeIssue(location, "warning", "Service runs in privileged mode", <<>>,
                           "Avoid privileged mode unless absolutely necessary for security")>>)
    ELSE Ok(<<>>)

CheckNetworkMode(service_config, location) ==
    IF NotADict(service_config) THEN Raised
    ELSE IF StrEq(GetOr(service_config, <<"n","e","t","w","o","r","k","_","m","o","d","e">>, Null), <<"h","o","s","t">>)
    THEN Ok(<<ComposeIssue(location, "warning", "Using network_mode: host", <<>>,
                           "Prefer bridge networks for better isolation")>>)
    ELSE Ok(<<>>)

\* ServiceIssues with the restart check moved before the image check
ServiceIssuesReordered(service_name, service_config) ==
    LET location == <<"s","e","r","v","i","c","e","s",".">> \o service_name
    IN  InOrder(<<CheckContainerName(service_config, location),
                  CheckRestart(service_config, location),
                  CheckImageTag(service_config, location),
                  CheckHealthcheck(service_config, location),
                  CheckEnvironment(service_config, location),
                  CheckResources(service_config, location),
                  CheckPrivileged(service_config, location),
                  CheckNetworkMode(service_config, location)>>)

\* one iteration of `for service_name, service_config in services.items()`
ServiceIssues(service_name, service_config) ==
    LET location == <<"s","e","r","v","i","c","e","s",".">> \o service_name
    IN  InOrder(<<CheckContainerName(service_config, location),
                  CheckImageTag(service_config, location),
                  CheckHealthcheck(service_config, location),
                  CheckRestart(service_config, location),
                  CheckEnvironment(service_config, location),
                  CheckResources(service_config, location),
                  CheckPrivileged(service_config, location),
                  CheckNetworkMode(service_config, location)>>)

\* used_volumes.add raises TypeError: unhashable type
Unhashable(v) == v.t \in {"list", "map"}

\* the names one mount entry adds to used_volumes (a source that is not a
\* str equals no declared name and is left out)
VolumeRefs(volume) ==
    IF volume.t = "str"
    THEN IF Contains(volume.v, <<":">>)
            /\ ~StartsWith(Split(volume.v, ":")[1], <<".">>)
            /\ ~StartsWith(Split(volume.v, ":")[1], <<"/">>)
         THEN {Split(volume.v, ":")[1]}
         ELSE {}
    ELSE IF volume.t = "map" /\ HasKey(volume, <<"s","o","u","r","c","e">>)
            /\ Get(volume, <<"s","o","u","r","c","e">>).t = "str"
    THEN {Get(volume, <<"s","o","u","r","c","e">>).v}
    ELSE {}

VolumeRaises(volume) ==
    volume.t = "map" /\ HasKey(volume, <<"s","o","u","r","c","e">>) /\ Unhashable(Get(volume, <<"s","o","u","r","c","e">>))

\* the body of `for service_config in services.values()` of the volumes check
ServiceVolumesRaise(service_config) ==
    \/ InRaises(service_config)
    \/ /\ PyIn(<<"v","o","l","u","m","e","s">>, service_config)
       /\ \/ NotADict(service_config)
          \/ NotIterable(Get(service_config, <<"v","o","l","u","m","e","s">>))
          \/ \E k \in 1..Len(Elements(Get(service_config, <<"v","o","l","u","m","e","s">>))) :
                VolumeRaises(Elements(Get(service_config, <<"v","o","l","u","m","e","s">>))[k])

ServiceVolumeRefs(service_config) ==
    IF PyIn(<<"v","o","l","u","m","e","s">>, service_config)
    THEN UNION {VolumeRefs(Elements(Get(service_config, <<"v","o","l","u","m","e","s">>))[k]) :
                  k \in 1..Len(Elements(Get(service_config, <<"v","o","l","u","m","e","s">>)))}
    ELSE {}

\* set(compose_data['volumes'].keys())
DefinedVolumes(compose_data) ==
    {Get(compose_data, <<"v","o","l","u","m","e","s">>).v[k].k : k \in 1..Len(Get(compose_data, <<"v","o","l","u","m","e","s">>).v)}

UsedVolumes(services) ==
    UNION {ServiceVolumeRefs(services.v[k].v) : k \in 1..Len(services.v)}

\* defined_volumes - used_volumes
UnusedVolumes(compose_data) ==
    DefinedVolumes(compose_data) \ UsedVolumes(Get(compose_data, <<"s","e","r","v","i","c","e","s">>))

\* iteration over a set of str visits it in the order of the str hashes, which
\* are salted per process: hash_order lists the names in this process's order
SetIteration(S, hash_order) == SelectSeq(hash_order, LAMBDA x : x \in S)

CheckUnusedVolumes(compose_data, services, hash_order) ==
    IF ~PyIn(<<"v","o","l","u","m","e","s">>, compose_data) THEN Ok(<<>>)
    ELSE IF NotADict(Get(compose_data, <<"v","o","l","u","m","e","s">>)) THEN Raised
    ELSE IF \E k \in 1..Len(services.v) : ServiceVolumesRaise(services.v[k].v) THEN Raised
    ELSE IF UnusedVolumes(compose_data) # {}
    THEN Ok(<<ComposeIssue(<<"v","o","l","u","m","e","s">>, "info", "Unused volumes defined",
                           Join(SetIteration(UnusedVolumes(compose_data), hash_order), <<","," ">>),
                           "Remove unused volume definitions")>>)
    ELSE Ok(<<>>)

\* analyze_compose(compose_data, filename): the issues returned, or fault when
\* an exception leaves the function
analyze_compose(compose_data, hash_order) ==
    LET version == CheckVersionKey(compose_data)
    IN  IF version.fault THEN Raised
        ELSE IF ~PyIn(<<"s","e","r","v","i","c","e","s">>, compose_data)
        THEN Ok(version.issues \o <<NoServicesIssue>>)
        ELSE IF NotADict(compose_data) THEN Raised
        ELSE LET services == Get(compose_data, <<"s","e","r","v","i","c","e","s">>)
             IN  IF NotADict(services) THEN Raised
                 ELSE InOrder(<<version>>
                              \o [k \in 1..Len(services.v) |->
                                    ServiceIssues(services.v[k].k, services.v[k].v)]
                              \o <<CheckUnusedVolumes(compose_data, services, hash_order)>>)

(* -------------------------- validate_chart.py -------------------------- *)

ChartIssue(location, severity, message, detail, suggestion) ==
    [location |-> location, severity |-> severity, message |-> message,
     detail |-> detail, suggestion |-> suggestion]

MissingField(field) ==
    ChartIssue(<<"C","h","a","r","t",".","y","a","m","l">>, "error", "Missing required field", field, "Add field to Chart.yaml")

\* `for field in required: if field not in chart`
CheckRequiredFields(chart) ==
    LET required == <<<<"a","p","i","V","e","r","s","i","o","n">>, <<"n","a","m","e">>, <<"v","e","r","s","i","o","n">>, <<"t","y","p","e">>>>
    IN  IF InRaises(chart) THEN Raised
        ELSE Ok(Concat([k \in 1..Len(required) |->
                          IF ~PyIn(required[k], chart)
                          THEN <<MissingField(required[k])>> ELSE <<>>]))

\* the index of the first dependency at which `for dep in deps` stops: the
\* first that is no dict (dep.get raises) or is named common (break); 0 if none
FirstStop(deps) ==
    LET stops == {k \in 1..Len(deps) :
                     NotADict(deps[k]) \/ StrEq(GetOr(deps[k], <<"n","a","m","e">>, Null), <<"c","o","m","m","o","n">>)}
    IN  IF stops = {} THEN 0 ELSE Min(stops)

CheckDependencies(chart) ==
    IF InRaises(chart) THEN Raised
    ELSE IF ~PyIn(<<"d","e","p","e","n","d","e","n","c","i","e","s">>, chart)
    THEN Ok(<<ChartIssue(<<"C","h","a","r","t",".","y","a","m","l">>, "error", "No dependencies defined", <<>>,
                         "Add bjw-s common library as dependency")>>)
    ELSE IF NotADict(chart) THEN Raised
    ELSE IF NotIterable(Get(chart, <<"d","e","p","e","n","d","e","n","c","i","e","s">>)) THEN Raised
    ELSE LET deps == Elements(Get(chart, <<"d","e","p","e","n","d","e","n","c","i","e","s">>))
             stop == FirstStop(deps)
         IN  IF stop = 0
             THEN Ok(<<ChartIssue(<<"C","h","a","r","t",".","y","a","m","l">>, "error",
                                  "bjw-s common library not found in dependencies", <<>>,
                                  "Add common library dependency")>>)
             ELSE IF NotADict(deps[stop]) THEN Raised
             ELSE IF ~StrEq(GetOr(deps[stop], <<"r","e","p","o","s","i","t","o","r","y">>, Null),
                            <<"h","t","t","p","s",":","/","/","b","j","w","-","s","-","l","a","b","s",".","g","i","t","h","u","b",".","i","o","/","h","e","l","m","-","c","h","a","r","t","s">>)
             THEN Ok(<<ChartIssue(<<"C","h","a","r","t",".","y","a","m","l">>, "warning",
                                  "Common library repository URL may be incorrect", <<>>,
                                  "Use: https://bjw-s-labs.github.io/helm-charts")>>)
             ELSE Ok(<<>>)

\* validate_chart_yaml(chart_path); chart_yaml is what exists() and
\* yaml.safe_load make of <chart_path>/Chart.yaml
validate_chart_yaml(chart_yaml) ==
    IF chart_yaml.yaml = "missing"
    THEN Ok(<<ChartIssue(<<"C","h","a","r","t",".","y","a","m","l">>, "error", "Chart.yaml not found", <<>>,
                         "Create Chart.yaml with apiVersion, name, version, and dependencies")>>)
    ELSE IF chart_yaml.yaml = "invalid"
    THEN Ok(<<ChartIssue(<<"C","h","a","r","t",".","y","a","m","l">>, "error", "Invalid YAML", <<>>,
                         "Fix YAML syntax errors")>>)
    ELSE InOrder(<<CheckRequiredFields(chart_yaml.data), CheckDependencies(chart_yaml.data)>>)

\* validate_templates(chart_path); templates is "missing" or the directory:
\* common the text of common.yaml or "missing", notes whether NOTES.txt exists
validate_templates(templates) ==
    IF templates.dir = "missing"
    THEN Ok(<<ChartIssue(<<"t","e","m","p","l","a","t","e","s","/">>, "error", "templates directory not found", <<>>,
                         "Create templates/ directory")>>)
    ELSE Ok((IF templates.common.exists = FALSE
             THEN <<ChartIssue(<<"t","e","m","p","l","a","t","e","s","/","c","o","m","m","o","n",".","y","a","m","l">>, "error", "common.yaml not found", <<>>,
                               "Create templates/common.yaml with: {{- include \"bjw-s.common.loader.all\" . }}")>>
             ELSE IF ~Contains(templates.common.text, <<"b","j","w","-","s",".","c","o","m","m","o","n",".","l","o","a","d","e","r",".","a","l","l">>)
             THEN <<ChartIssue(<<"t","e","m","p","l","a","t","e","s","/","c","o","m","m","o","n",".","y","a","m","l">>, "error",
                               "Missing bjw-s.common.loader.all include", <<>>,
                               "Add: {{- include \"bjw-s.common.loader.all\" . }}")>>
             ELSE <<>>)
            \o
            (IF ~templates.notes
             THEN <<ChartIssue(<<"t","e","m","p","l","a","t","e","s","/","N","O","T","E","S",".","t","x","t">>, "info", "NOTES.txt not found", <<>>,
                               "Consider adding NOTES.txt for post-install instructions")>>
             ELSE <<>>))

CheckImage(container_config, cont_location) ==
    IF InRaises(container_config) THEN Raised
    ELSE IF ~PyIn(<<"i","m","a","g","e">>, container_config)
    THEN Ok(<<ChartIssue(cont_location, "error", "No image defined", <<>>,
                         "Add image.repository and image.tag")>>)
    ELSE IF NotADict(container_config) THEN Raised
    ELSE LET image == Get(container_config, <<"i","m","a","g","e">>)
             repository ==
                 IF ~PyIn(<<"r","e","p","o","s","i","t","o","r","y">>, image)
                 THEN <<ChartIssue(cont_location \o <<".","i","m","a","g","e">>, "error",
                                   "Missing image repository", <<>>, "Add image.repository")>>
                 ELSE <<>>
         IN  IF InRaises(image) THEN Raised
             ELSE IF ~PyIn(<<"t","a","g">>, image)
             THEN Ok(repository
                     \o <<ChartIssue(cont_location \o <<".","i","m","a","g","e">>, "warning",
                                     "Missing image tag", <<>>,
                                     "Add explicit image.tag (avoid :latest)")>>)
             ELSE IF NotADict(image) THEN [fault |-> TRUE, issues |-> repository]
             ELSE IF StrEq(Get(image, <<"t","a","g">>), <<"l","a","t","e","s","t">>)
             THEN Ok(repository
                     \o <<ChartIssue(cont_location \o <<".","i","m","a","g","e">>, "warning",
                                     "Using :latest tag", <<>>,
                                     "Use specific version tag for reproducibility")>>)
             ELSE Ok(repository)

CheckProbe(probes, probe_type, cont_location) ==
    IF InRaises(probes) THEN Raised
    ELSE IF ~PyIn(probe_type, probes) THEN Ok(<<>>)
    ELSE IF NotADict(probes) THEN Raised
    ELSE LET probe == Get(probes, probe_type)
         IN  IF NotADict(probe) THEN Raised
             ELSE IF /\ Truthy(GetOr(probe, <<"e","n","a","b","l","e","d">>, Null))
                     /\ ~Truthy(GetOr(probe, <<"c","u","s","t","o","m">>, Null))
                     /\ ~HasKey(probe, <<"t","y","p","e">>)
             THEN Ok(<<ChartIssue(cont_location \o <<".","p","r","o","b","e","s",".">> \o probe_type, "info",
                                  "Probe type not specified", <<>>,
                                  "Add type: HTTP, TCP, or EXEC")>>)
             ELSE Ok(<<>>)

CheckProbes(container_config, cont_location) ==
    IF InRaises(container_config) THEN Raised
    ELSE IF ~PyIn(<<"p","r","o","b","e","s">>, container_config) THEN Ok(<<>>)
    ELSE IF NotADict(container_config) THEN Raised
    ELSE InOrder(<<CheckProbe(Get(container_config, <<"p","r","o","b","e","s">>), <<"l","i","v","e","n","e","s","s">>, cont_location),
                   CheckProbe(Get(container_config, <<"p","r","o","b","e","s">>), <<"r","e","a","d","i","n","e","s","s">>, cont_location),
                   CheckProbe(Get(container_config, <<"p","r","o","b","e","s">>), <<"s","t","a","r","t","u","p">>, cont_location)>>)

\* one iteration of `for container_name, container_config in containers.items()`
ContainerIssues(location, container_name, container_config) ==
    LET cont_location == location \o <<".","c","o","n","t","a","i","n","e","r","s",".">> \o container_name
    IN  IF ~Truthy(container_config)
        THEN Ok(<<ChartIssue(cont_location, "error", "Container configuration is empty", <<>>,
                             "Add image configuration")>>)
        ELSE InOrder(<<CheckImage(container_config, cont_location),
                       CheckProbes(container_config, cont_location)>>)

\* one iteration of `for ctrl_name, ctrl_config in controllers.items()`
ControllerIssues(ctrl_name, ctrl_config) ==
    LET location == <<"c","o","n","t","r","o","l","l","e","r","s",".">> \o ctrl_name
    IN  IF ~Truthy(ctrl_config)
        THEN Ok(<<ChartIssue(location, "error", "Controller configuration is empty", <<>>,
                             "Add container definitions")>>)
        ELSE IF InRaises(ctrl_config) THEN Raised
        ELSE IF ~PyIn(<<"c","o","n","t","a","i","n","e","r","s">>, ctrl_config)
        THEN Ok(<<ChartIssue(location, "error", "No containers defined", <<>>,
                             "Add at least one container")>>)
        ELSE IF NotADict(ctrl_config) THEN Raised
        ELSE IF ~Truthy(Get(ctrl_config, <<"c","o","n","t","a","i","n","e","r","s">>))
        THEN Ok(<<ChartIssue(location, "error", "Containers section is empty", <<>>,
                             "Add at least one container")>>)
        ELSE IF NotADict(Get(ctrl_config, <<"c","o","n","t","a","i","n","e","r","s">>)) THEN Raised
        ELSE LET containers == Get(ctrl_config, <<"c","o","n","t","a","i","n","e","r","s">>).v
             IN  InOrder([k \in 1..Len(containers) |->
                            ContainerIssues(location, containers[k].k, containers[k].v)])

\* one iteration of `for svc_name, svc_config in services.items()`
ChartServiceIssues(svc_name, svc_config) ==
    LET location == <<"s","e","r","v","i","c","e",".">> \o svc_name
        controller ==
            IF ~PyIn(<<"c","o","n","t","r","o","l","l","e","r">>, svc_config)
            THEN <<ChartIssue(location, "error", "Service does not reference a controller", <<>>,
                              "Add controller: <controller-name>")>>
            ELSE <<>>
        ports == ChartIssue(location, "error", "Service has no ports defined", <<>>,
                            "Add at least one port")
    IN  IF InRaises(svc_config) THEN Raised
        ELSE IF ~PyIn(<<"p","o","r","t","s">>, svc_config) THEN Ok(controller \o <<ports>>)
        ELSE IF NotADict(svc_config) THEN [fault |-> TRUE, issues |-> controller]
        ELSE IF ~Truthy(Get(svc_config, <<"p","o","r","t","s">>)) THEN Ok(controller \o <<ports>>)
        ELSE Ok(controller)

CheckServices(values) ==
    IF ~PyIn(<<"s","e","r","v","i","c","e">>, values) THEN Ok(<<>>)
    ELSE IF NotADict(values) \/ NotADict(Get(values, <<"s","e","r","v","i","c","e">>)) THEN Raised
    ELSE LET services == Get(values, <<"s","e","r","v","i","c","e">>).v
         IN  InOrder([k \in 1..Len(services) |->
                        ChartServiceIssues(services[k].k, services[k].v)])

\* the body of `for path in host['paths']`
PathIssues(path, location) ==
    IF InRaises(path) THEN Raised
    ELSE IF ~PyIn(<<"s","e","r","v","i","c","e">>, path) THEN Ok(<<>>)
    ELSE IF NotADict(path) \/ InRaises(Get(path, <<"s","e","r","v","i","c","e">>)) THEN Raised
    ELSE IF /\ ~PyIn(<<"i","d","e","n","t","i","f","i","e","r">>, Get(path, <<"s","e","r","v","i","c","e">>))
            /\ ~PyIn(<<"n","a","m","e">>, Get(path, <<"s","e","r","v","i","c","e">>))
    THEN Ok(<<ChartIssue(location, "error", "Service reference missing identifier or name", <<>>,
                         "Use identifier: <service-identifier> or name: <service-name>")>>)
    ELSE Ok(<<>>)

\* the body of `for host in ing_config['hosts']`
HostIssues(host, location) ==
    IF InRaises(host) THEN Raised
    ELSE IF ~PyIn(<<"p","a","t","h","s">>, host) THEN Ok(<<>>)
    ELSE IF NotADict(host) \/ NotIterable(Get(host, <<"p","a","t","h","s">>)) THEN Raised
    ELSE LET paths == Elements(Get(host, <<"p","a","t","h","s">>))
         IN  InOrder([k \in 1..Len(paths) |-> PathIssues(paths[k], location)])

\* one iteration of `for ing_name, ing_config in ingresses.items()`
IngressIssues(ing_name, ing_config) ==
    LET location == <<"i","n","g","r","e","s","s",".">> \o ing_name
        no_hosts == ChartIssue(location, "warning", "Ingress has no hosts defined", <<>>,
                               "Add hosts configuration")
    IN  IF NotADict(ing_config) THEN Raised
        ELSE IF ~Truthy(GetOr(ing_config, <<"e","n","a","b","l","e","d">>, Bool(TRUE))) THEN Ok(<<>>)
        ELSE IF ~HasKey(ing_config, <<"h","o","s","t","s">>) \/ ~Truthy(Get(ing_config, <<"h","o","s","t","s">>))
        THEN Ok(<<no_hosts>>)
        ELSE IF NotIterable(Get(ing_config, <<"h","o","s","t","s">>)) THEN Raised
        ELSE LET hosts == Elements(Get(ing_config, <<"h","o","s","t","s">>))
             IN  InOrder([k \in 1..Len(hosts) |-> HostIssues(hosts[k], location)])

CheckIngress(values) ==
    IF ~PyIn(<<"i","n","g","r","e","s","s">>, values) THEN Ok(<<>>)
    ELSE IF NotADict(values) \/ NotADict(Get(values, <<"i","n","g","r","e","s","s">>)) THEN Raised
    ELSE LET ingresses == Get(values, <<"i","n","g","r","e","s","s">>).v
         IN  InOrder([k \in 1..Len(ingresses) |->
                        IngressIssues(ingresses[k].k, ingresses[k].v)])

\* one iteration of `for vol_name, vol_config in persistence.items()`
PersistenceIssues(vol_name, vol_config) ==
    LET location == <<"p","e","r","s","i","s","t","e","n","c","e",".">> \o vol_name
    IN  IF NotADict(vol_config) THEN Raised
        ELSE IF ~Truthy(GetOr(vol_config, <<"e","n","a","b","l","e","d">>, Bool(TRUE))) THEN Ok(<<>>)
        ELSE Ok((IF ~HasKey(vol_config, <<"t","y","p","e">>)
                 THEN <<ChartIssue(location, "info", "Persistence type not specified", <<>>,
                                   "Defaults to persistentVolumeClaim")>>
                 ELSE <<>>)
                \o
                (IF /\ StrEq(GetOr(vol_config, <<"t","y","p","e">>, Str(<<"p","e","r","s","i","s","t","e","n","t","V","o","l","u","m","e","C","l","a","i","m">>)),
                             <<"p","e","r","s","i","s","t","e","n","t","V","o","l","u","m","e","C","l","a","i","m">>)
                    /\ ~HasKey(vol_config, <<"e","x","i","s","t","i","n","g","C","l","a","i","m">>)
                 THEN (IF ~HasKey(vol_config, <<"s","i","z","e">>)
                       THEN <<ChartIssue(location, "error", "PVC has no size specified", <<>>,
                                         "Add size: 1Gi (or use existingClaim)")>>
                       ELSE <<>>)
                      \o
                      (IF ~HasKey(vol_config, <<"a","c","c","e","s","s","M","o","d","e">>)
                       THEN <<ChartIssue(location, "info", "PVC has no accessMode specified", <<>>,
                                         "Defaults to ReadWriteOnce")>>
                       ELSE <<>>)
                 ELSE <<>>))

CheckPersistence(values) ==
    IF ~PyIn(<<"p","e","r","s","i","s","t","e","n","c","e">>, values) THEN Ok(<<>>)
    ELSE IF NotADict(values) \/ NotADict(Get(values, <<"p","e","r","s","i","s","t","e","n","c","e">>)) THEN Raised
    ELSE LET persistence == Get(values, <<"p","e","r","s","i","s","t","e","n","c","e">>).v
         IN  InOrder([k \in 1..Len(persistence) |->
                        PersistenceIssues(persistence[k].k, persistence[k].v)])

ValuesError(message, suggestion) ==
    Ok(<<ChartIssue(<<"v","a","l","u","e","s",".","y","a","m","l">>, "error", message, <<>>, suggestion)>>)

\* validate_values(chart_path); values_yaml is what exists() and
\* yaml.safe_load make of <chart_path>/values.yaml
validate_values(values_yaml) ==
    IF values_yaml.yaml = "missing"
    THEN ValuesError("values.yaml not found", "Create values.yaml with chart configuration")
    ELSE IF values_yaml.yaml = "invalid"
    THEN ValuesError("Invalid YAML", "Fix YAML syntax errors")
    ELSE LET values == values_yaml.data
         IN  IF ~Truthy(values)
             THEN ValuesError("values.yaml is empty", "Add controller configuration")
             ELSE IF InRaises(values) THEN Raised
             ELSE IF ~PyIn(<<"c","o","n","t","r","o","l","l","e","r","s">>, values)
             THEN ValuesError("No controllers defined", "Add at least one controller")
             ELSE IF NotADict(values) THEN Raised
             ELSE IF ~Truthy(Get(values, <<"c","o","n","t","r","o","l","l","e","r","s">>))
             THEN ValuesError("Controllers section is empty", "Add at least one controller")
             ELSE IF NotADict(Get(values, <<"c","o","n","t","r","o","l","l","e","r","s">>)) THEN Raised
             ELSE LET controllers == Get(values, <<"c","o","n","t","r","o","l","l","e","r","s">>).v
                  IN  InOrder([k \in 1..Len(controllers) |->
                                 ControllerIssues(controllers[k].k, controllers[k].v)]
                              \o <<CheckServices(values), CheckIngress(values),
                                   CheckPersistence(values)>>)

(* ------------------- the report of main(), all three tools ------------- *)

\* BySeverity whose info group also takes the warnings
BySeverityLoose(iss, sev) ==
    SelectSeq(iss, LAMBDA d : d.severity = sev \/ (sev = "info" /\ d.severity = "warning"))

\* [i for i in issues if i.severity == sev]
BySeverity(iss, sev) == SelectSeq(iss, LAMBDA d : d.severity = sev)

Printed(kind, arg) == [kind |-> kind, arg |-> arg]

\* the print of one group: its label, then each issue of the group
GroupLines(label, group) ==
    IF group # <<>>
    THEN <<Printed("label", label)>>
         \o [k \in 1..Len(group) |-> Printed("issue", group[k])]
    ELSE <<>>

TotalLine(errors, warnings, infos) ==
    Printed("total", <<Len(errors), Len(warnings), Len(infos)>>)

\* the prints of main() from "Group by severity" to the Total line
GroupedReport(iss) ==
    LET errors == BySeverity(iss, "error")
        warnings == BySeverity(iss, "warning")
        infos == BySeverity(iss, "info")
    IN  GroupLines("Errors", errors)
        \o GroupLines("Warnings", warnings)
        \o GroupLines("Suggestions", infos)
        \o <<TotalLine(errors, warnings, infos)>>

\* ExitStatus with the exit status taken from the whole collection
ExitStatusAnyIssue(iss) == IF iss # <<>> THEN 1 ELSE 0

\* sys.exit(1 if errors else 0)
ExitStatus(iss) == IF BySeverity(iss, "error") # <<>> THEN 1 ELSE 0

\* what one run of a tool leaves behind: how it ended, the issues collected,
\* the prints on stdout, the exit status and the analysis functions it called
Result(oc, iss, printed, code, called) ==
    [outcome |-> oc, issues |-> iss, out |-> printed, exitCode |-> code, calls |-> called]

\* Abort that leaves with status 0
AbortStatusZero(oc, printed) == Result(oc, <<>>, printed, 0, <<>>)

\* sys.exit(1) after one message, before anything is analyzed
Abort(oc, printed) == Result(oc, <<>>, printed, 1, <<>>)

\* an exception nobody catches: the traceback goes to stderr, the interpreter
\* exits with status 1 and the prints made so far stay on stdout
Crash(printed, called) == Result("crash", <<>>, printed, 1, called)

(* ------------------------------ main() --------------------------------- *)

\* SuccessLines without the return: main() goes on to the header and the totals
SuccessLinesNoReturn(message) ==
    <<Printed("success", message), Printed("header", "Analysis of"),
      Printed("total", <<0, 0, 0>>)>>

\* `if not issues:` prints the success message and returns
SuccessLines(message) == <<Printed("success", message)>>

\* analyze_dockerfile.py main()
DockerfileMainResult(n_args, kind, content) ==
    IF n_args # 2
    THEN Abort("usage", <<Printed("usage", "analyze_dockerfile.py")>>)
    ELSE IF kind = "missing"
    THEN Abort("path", <<Printed("error", "File not found")>>)
    ELSE IF kind = "dir"
    THEN Crash(<<>>, <<>>)
    ELSE LET iss == analyze_dockerfile(content)
             called == <<"analyze_dockerfile">>
         IN  IF iss = <<>>
             THEN Result("clean", iss, SuccessLines("Dockerfile looks good"), 0,
                         called)
             ELSE Result("report", iss,
                         <<Printed("header", "Analysis of")>> \o GroupedReport(iss),
                         ExitStatus(iss), called)

\* analyze_compose.py main(); source is what open() and yaml.safe_load make of
\* the file: a YAMLError, or the parsed data
ComposeMainResult(n_args, kind, source, hash_order) ==
    IF n_args # 2
    THEN Abort("usage", <<Printed("usage", "analyze_compose.py")>>)
    ELSE IF kind = "missing"
    THEN Abort("path", <<Printed("error", "File not found")>>)
    ELSE IF kind = "dir"
    THEN Crash(<<>>, <<>>)
    ELSE IF source.yaml = "invalid"
    THEN Abort("parse", <<Printed("error", "Invalid YAML in"), Printed("detail", "YAMLError")>>)
    ELSE LET r == analyze_compose(source.data, hash_order)
             called == <<"analyze_compose">>
         IN  IF r.fault THEN Crash(<<>>, called)
             ELSE IF r.issues = <<>>
             THEN Result("clean", <<>>, SuccessLines("Compose file looks good"), 0,
                         called)
             ELSE Result("report", r.issues,
                         <<Printed("header", "Analysis of")>> \o GroupedReport(r.issues),
                         ExitStatus(r.issues), called)

\* RunValidators that stops after a validator that reported something
RunValidatorsShortCircuit(dir) ==
    IF validate_chart_yaml(dir.chart_yaml).issues # <<>>
    THEN <<validate_chart_yaml(dir.chart_yaml)>>
    ELSE <<validate_chart_yaml(dir.chart_yaml),
           validate_templates(dir.templates),
           validate_values(dir.values_yaml)>>

\* "Collect all issues": the three validators, called one after the other
RunValidators(dir) ==
    <<validate_chart_yaml(dir.chart_yaml),
      validate_templates(dir.templates),
      validate_values(dir.values_yaml)>>

\* validate_chart.py main(); dir is the content of the chart directory
ChartMainResult(n_args, kind, dir) ==
    IF n_args # 2
    THEN Abort("usage", <<Printed("usage", "validate_chart.py")>>)
    ELSE IF kind = "missing"
    THEN Abort("path", <<Printed("error", "Path not found")>>)
    ELSE IF kind # "dir"
    THEN Abort("path", <<Printed("error", "Path is not a directory")>>)
    ELSE LET header == <<Printed("header", "Validating Helm chart at")>>
             validators == <<"validate_chart_yaml", "validate_templates", "validate_values">>
             rs == RunValidators(dir)
             bad == {k \in 1..Len(rs) : rs[k].fault}
             r == InOrder(rs)
         IN  IF r.fault THEN Crash(header, SubSeq(validators, 1, Min(bad)))
             ELSE IF r.issues = <<>>
             THEN Result("clean", <<>>,
                         header \o SuccessLines("Chart structure looks good"), 0,
                         SubSeq(validators, 1, Len(rs)))
             ELSE Result("report", r.issues, header \o GroupedReport(r.issues),
                         ExitStatus(r.issues), SubSeq(validators, 1, Len(rs)))

\* the effect of one run on the state
Finish(r) ==
    /\ runs' = runs + 1
    /\ prevIssues' = issues
    /\ prevOutcome' = outcome
    /\ outcome' = r.outcome
    /\ issues' = r.issues
    /\ out' = r.out
    /\ exitCode' = r.exitCode
    /\ calls' = r.calls
    /\ UNCHANGED <<tool, argc, pathKind, file>>

DockerfileMain ==
    /\ tool = "dockerfile"
    /\ runs < MaxRuns
    /\ Finish(DockerfileMainResult(argc, pathKind, file))

Perms(S) ==
    {p \in [1..Cardinality(S) -> S] : \A x \in S : \E k \in 1..Cardinality(S) : p[k] = x}

\* the str a run may put in a set: the names of the declared volumes
HashedNames(source) ==
    IF /\ source.yaml = "ok"
       /\ source.data.t = "map"
       /\ HasKey(source.data, <<"v","o","l","u","m","e","s">>)
       /\ Get(source.data, <<"v","o","l","u","m","e","s">>).t = "map"
    THEN DefinedVolumes(source.data)
    ELSE {}

\* one run of the tool in a fresh process, with that process's hash order
ComposeMain ==
    /\ tool = "compose"
    /\ runs < MaxRuns
    /\ \E hash_order \in Perms(HashedNames(file)) :
          Finish(ComposeMainResult(argc, pathKind, file, hash_order))

ChartMain ==
    /\ tool = "chart"
    /\ runs < MaxRuns
    /\ Finish(ChartMainResult(argc, pathKind, file))

(* --------------------------- Compose inputs ---------------------------- *)

\* mappings an input document may give a service
HealthyParts ==
    <<Item(<<"h","e","a","l","t","h","c","h","e","c","k">>, Map(<<Item(<<"t","e","s","t">>, Str(<<"t","r","u","e">>))>>)),
      Item(<<"r","e","s","t","a","r","t">>, Str(<<"a","l","w","a","y","s">>)),
      Item(<<"d","e","p","l","o","y">>, Map(<<Item(<<"r","e","s","o","u","r","c","e","s">>, Map(<<>>))>>))>>

ServiceConfigs ==
    { \* nothing to report
      Map(<<Item(<<"i","m","a","g","e">>, Str(<<"a","p","p",":","1",".","2">>))>> \o HealthyParts),
      \* image: app:latest and nothing else
      Map(<<Item(<<"i","m","a","g","e">>, Str(<<"a","p","p",":","l","a","t","e","s","t">>))>>),
      \* a fixed name, an untagged image, privileged, host network
      Map(<<Item(<<"c","o","n","t","a","i","n","e","r","_","n","a","m","e">>, Str(<<"w","e","b","1">>)), Item(<<"i","m","a","g","e">>, Str(<<"a","p","p">>)),
            Item(<<"p","r","i","v","i","l","e","g","e","d">>, Bool(TRUE)), Item(<<"n","e","t","w","o","r","k","_","m","o","d","e">>, Str(<<"h","o","s","t">>))>>
          \o HealthyParts),
      \* environment as a mapping, a named volume, a bind path and a long-form
      \* bind mount
      Map(<<Item(<<"i","m","a","g","e">>, Str(<<"d","b",":","1","6">>)),
            Item(<<"e","n","v","i","r","o","n","m","e","n","t">>,
                 Map(<<Item(<<"D","B","_","P","A","S","S","W","O","R","D">>, Str(<<"h","u","n","t","e","r","2">>)),
                       Item(<<"A","P","I","_","T","O","K","E","N">>, Str(<<"$","T","O","K","E","N">>)),
                       Item(<<"M","O","D","E">>, Str(<<"p","r","o","d">>))>>)),
            Item(<<"v","o","l","u","m","e","s">>,
                 List(<<Str(<<"d","a","t","a",":","/","v","a","r","/","l","i","b">>), Str(<<".","/","s","r","c",":","/","a","p","p">>),
                        Map(<<Item(<<"t","y","p","e">>, Str(<<"b","i","n","d">>)),
                              Item(<<"s","o","u","r","c","e">>, Str(<<"c","a","c","h","e">>)),
                              Item(<<"t","a","r","g","e","t">>, Str(<<"/","c">>))>>)>>))>>
          \o HealthyParts),
      \* environment as a list, an idle command, a long-form volume
      Map(<<Item(<<"i","m","a","g","e">>, Str(<<"j","o","b",":","2">>)),
            Item(<<"c","o","m","m","a","n","d">>, Str(<<"s","l","e","e","p"," ","1","0">>)),
            Item(<<"e","n","v","i","r","o","n","m","e","n","t">>, List(<<Str(<<"S","E","C","R","E","T","_","K","E","Y","=","a","b","c">>), Str(<<"D","E","B","U","G">>),
                        Str(<<"D","B","_","P","A","S","S","W","O","R","D","=">>)>>)),
            Item(<<"v","o","l","u","m","e","s">>,
                 List(<<Map(<<Item(<<"t","y","p","e">>, Str(<<"v","o","l","u","m","e">>)),
                              Item(<<"s","o","u","r","c","e">>, Str(<<"c","a","c","h","e">>)),
                              Item(<<"t","a","r","g","e","t">>, Str(<<"/","c">>))>>)>>)),
            Item(<<"r","e","s","t","a","r","t">>, Str(<<"n","o">>))>>),
      \* `web:` with no configuration
      Null,
      \* a configuration that is not a mapping
      Str(<<"a","p","p",":","1",".","2">>),
      \* an environment value that is not a str
      Map(<<Item(<<"i","m","a","g","e">>, Str(<<"a","p","p",":","1",".","2">>)),
            Item(<<"e","n","v","i","r","o","n","m","e","n","t">>, Map(<<Item(<<"A","P","I","_","K","E","Y">>, IntV(123))>>))>>
          \o HealthyParts) }

ServiceNames == <<<<"w","e","b">>, <<"d","b">>, <<"j","o","b">>, <<"a","u","x">>>>

\* the services mapping made of the configurations cfgs, in document order
ServicesOf(cfgs) == Map([k \in 1..Len(cfgs) |-> Item(ServiceNames[k], cfgs[k])])

ServicesValues ==
    {Null, Map(<<>>)} \cup {ServicesOf(cfgs) : cfgs \in SeqsUpTo(ServiceConfigs, MaxServices)}

TopVolumes ==
    { Map(<<Item(<<"d","a","t","a">>, Null)>>),
      Map(<<Item(<<"d","a","t","a">>, Null), Item(<<"c","a","c","h","e">>, Null)>>),
      Null }

ComposeRoots ==
    {Map(ver \o svc \o vol) :
        ver \in {<<>>, <<Item(<<"v","e","r","s","i","o","n">>, Str(<<"3">>))>>},
        svc \in {<<>>} \cup {<<Item(<<"s","e","r","v","i","c","e","s">>, s)>> : s \in ServicesValues},
        vol \in {<<>>} \cup {<<Item(<<"v","o","l","u","m","e","s">>, v)>> : v \in TopVolumes}}
    \cup {Null, List(<<>>), List(<<Str(<<"s","e","r","v","i","c","e","s">>)>>), Str(<<"s","e","r","v","i","c","e","s">>), Str(<<"h","e","l","l","o">>),
          IntV(7)}

ComposeSources ==
    {[yaml |-> "invalid", data |-> Null]}
    \cup {[yaml |-> "ok", data |-> d] : d \in ComposeRoots}

InitCompose ==
    /\ tool = "compose"
    /\ \/ argc \in {1, 3} /\ pathKind = "file" /\ file = [yaml |-> "ok", data |-> Map(<<>>)]
       \/ /\ argc = 2
          /\ pathKind \in {"missing", "dir"}
          /\ file = [yaml |-> "ok", data |-> Map(<<>>)]
       \/ argc = 2 /\ pathKind = "file" /\ file \in ComposeSources

(* ---------------------------- Chart inputs ----------------------------- *)

Missing == [yaml |-> "missing", data |-> Null]

Invalid == [yaml |-> "invalid", data |-> Null]

Parsed(d) == [yaml |-> "ok", data |-> d]

CommonDep(repository) ==
    Map(<<Item(<<"n","a","m","e">>, Str(<<"c","o","m","m","o","n">>)), Item(<<"r","e","p","o","s","i","t","o","r","y">>, Str(repository)),
          Item(<<"v","e","r","s","i","o","n">>, Str(<<"3",".","5",".","1">>))>>)

ChartFields ==
    <<Item(<<"a","p","i","V","e","r","s","i","o","n">>, Str(<<"v","2">>)), Item(<<"n","a","m","e">>, Str(<<"a","p","p">>)),
      Item(<<"v","e","r","s","i","o","n">>, Str(<<"1",".","0",".","0">>)), Item(<<"t","y","p","e">>, Str(<<"a","p","p","l","i","c","a","t","i","o","n">>))>>

ChartYamls ==
    { Missing, Invalid,
      \* an empty file, a top-level sequence
      Parsed(Null), Parsed(List(<<Str(<<"n","a","m","e">>)>>)),
      \* complete
      Parsed(Map(ChartFields
                 \o <<Item(<<"d","e","p","e","n","d","e","n","c","i","e","s">>,
                           List(<<CommonDep(<<"h","t","t","p","s",":","/","/","b","j","w","-","s","-","l","a","b","s",".","g","i","t","h","u","b",".","i","o","/","h","e","l","m","-","c","h","a","r","t","s">>)>>))>>)),
      \* no type, another repository
      Parsed(Map(SubSeq(ChartFields, 1, 3)
                 \o <<Item(<<"d","e","p","e","n","d","e","n","c","i","e","s">>,
                           List(<<CommonDep(<<"h","t","t","p","s",":","/","/","e","x","a","m","p","l","e",".","o","r","g","/","c","h","a","r","t","s">>)>>))>>)),
      \* no dependencies
      Parsed(Map(ChartFields)),
      \* dependencies without the common library
      Parsed(Map(ChartFields
                 \o <<Item(<<"d","e","p","e","n","d","e","n","c","i","e","s">>,
                           List(<<Map(<<Item(<<"n","a","m","e">>, Str(<<"r","e","d","i","s">>))>>)>>))>>)),
      \* a dependency that is not a mapping
      Parsed(Map(ChartFields \o <<Item(<<"d","e","p","e","n","d","e","n","c","i","e","s">>, List(<<Str(<<"c","o","m","m","o","n">>)>>))>>)) }

TemplateDirs ==
    { [dir |-> "missing", common |-> [exists |-> FALSE, text |-> <<>>], notes |-> FALSE],
      [dir |-> "present",
       common |-> [exists |-> TRUE, text |-> <<"{","{","-"," ","i","n","c","l","u","d","e"," ","\"","b","j","w","-","s",".","c","o","m","m","o","n",".","l","o","a","d","e","r",".","a","l","l","\""," ","."," ","}","}">>],
       notes |-> TRUE],
      [dir |-> "present", common |-> [exists |-> TRUE, text |-> <<"#"," ","e","m","p","t","y">>],
       notes |-> FALSE],
      [dir |-> "present", common |-> [exists |-> FALSE, text |-> <<>>], notes |-> TRUE] }

Container(image) == Map(<<Item(<<"i","m","a","g","e">>, image)>>)

Controllers(containers) ==
    Item(<<"c","o","n","t","r","o","l","l","e","r","s">>, Map(<<Item(<<"m","a","i","n">>, Map(<<Item(<<"c","o","n","t","a","i","n","e","r","s">>, containers)>>))>>))

GoodImage == Map(<<Item(<<"r","e","p","o","s","i","t","o","r","y">>, Str(<<"n","g","i","n","x">>)), Item(<<"t","a","g">>, Str(<<"1",".","2","7">>))>>)

GoodControllers == Controllers(Map(<<Item(<<"a","p","p">>, Container(GoodImage))>>))

GoodService ==
    Map(<<Item(<<"c","o","n","t","r","o","l","l","e","r">>, Str(<<"m","a","i","n">>)),
          Item(<<"p","o","r","t","s">>, Map(<<Item(<<"h","t","t","p">>, Map(<<Item(<<"p","o","r","t">>, IntV(80))>>))>>))>>)

ValuesYamls ==
    { Missing, Invalid,
      \* an empty file
      Parsed(Null),
      \* no controllers, an empty controllers section
      Parsed(Map(<<Item(<<"s","e","r","v","i","c","e">>, Map(<<>>))>>)),
      Parsed(Map(<<Item(<<"c","o","n","t","r","o","l","l","e","r","s">>, Map(<<>>))>>)),
      \* complete
      Parsed(Map(<<GoodControllers, Item(<<"s","e","r","v","i","c","e">>, Map(<<Item(<<"m","a","i","n">>, GoodService)>>))>>)),
      \* an empty controller, a controller without containers
      Parsed(Map(<<Item(<<"c","o","n","t","r","o","l","l","e","r","s">>,
                        Map(<<Item(<<"m","a","i","n">>, Null),
                              Item(<<"w","o","r","k","e","r">>, Map(<<Item(<<"t","y","p","e">>, Str(<<"c","r","o","n","j","o","b">>))>>))>>))>>)),
      \* containers: empty, no image, tag latest with an untyped probe, no tag
      Parsed(Map(<<Controllers(
                     Map(<<Item(<<"a">>, Null),
                           Item(<<"b">>, Map(<<Item(<<"e","n","v">>, Map(<<>>))>>)),
                           Item(<<"c">>, Map(<<Item(<<"i","m","a","g","e">>,
                                                  Map(<<Item(<<"r","e","p","o","s","i","t","o","r","y">>, Str(<<"n","g","i","n","x">>)),
                                                        Item(<<"t","a","g">>, Str(<<"l","a","t","e","s","t">>))>>)),
                                             Item(<<"p","r","o","b","e","s">>,
                                                  Map(<<Item(<<"l","i","v","e","n","e","s","s">>,
                                                             Map(<<Item(<<"e","n","a","b","l","e","d">>, Bool(TRUE))>>))>>))>>)),
                           Item(<<"d">>, Container(Map(<<Item(<<"p","u","l","l","P","o","l","i","c","y">>, Str(<<"A","l","w","a","y","s">>))>>)))>>))>>)),
      \* a service without controller and ports, then a service entry that is null
      Parsed(Map(<<GoodControllers,
                   Item(<<"s","e","r","v","i","c","e">>, Map(<<Item(<<"a","p","i">>, Map(<<Item(<<"t","y","p","e">>, Str(<<"C","l","u","s","t","e","r","I","P">>))>>)),
                                           Item(<<"m","a","i","n">>, Null)>>))>>)),
      \* ingress: no hosts, a path whose service has no identifier, disabled
      Parsed(Map(<<GoodControllers,
                   Item(<<"i","n","g","r","e","s","s">>,
                        Map(<<Item(<<"a">>, Map(<<Item(<<"h","o","s","t","s">>, List(<<>>))>>)),
                              Item(<<"b">>, Map(<<Item(<<"h","o","s","t","s">>,
                                  List(<<Map(<<Item(<<"h","o","s","t">>, Str(<<"x",".","o","r","g">>)),
                                               Item(<<"p","a","t","h","s">>,
                                                    List(<<Map(<<Item(<<"p","a","t","h">>, Str(<<"/">>)),
                                                                 Item(<<"s","e","r","v","i","c","e">>,
                                                                      Map(<<Item(<<"p","o","r","t">>, IntV(80))>>))>>)>>))>>)>>))>>)),
                              Item(<<"c">>, Map(<<Item(<<"e","n","a","b","l","e","d">>, Bool(FALSE))>>))>>))>>)),
      \* an ingress entry that is not a mapping
      Parsed(Map(<<GoodControllers,
                   Item(<<"s","e","r","v","i","c","e">>, Map(<<Item(<<"a","p","i">>, Map(<<>>))>>)),
                   Item(<<"i","n","g","r","e","s","s">>, Map(<<Item(<<"m","a","i","n">>, Str(<<"x",".","o","r","g">>))>>))>>)),
      \* persistence: a claim without size, an existing claim, an emptyDir
      Parsed(Map(<<GoodControllers,
                   Item(<<"p","e","r","s","i","s","t","e","n","c","e">>,
                        Map(<<Item(<<"d","a","t","a">>, Map(<<Item(<<"a","c","c","e","s","s","M","o","d","e">>, Str(<<"R","e","a","d","W","r","i","t","e","O","n","c","e">>))>>)),
                              Item(<<"o","l","d">>, Map(<<Item(<<"t","y","p","e">>, Str(<<"p","e","r","s","i","s","t","e","n","t","V","o","l","u","m","e","C","l","a","i","m">>)),
                                                  Item(<<"e","x","i","s","t","i","n","g","C","l","a","i","m">>, Str(<<"p","v","c">>))>>)),
                              Item(<<"t","m","p">>, Map(<<Item(<<"t","y","p","e">>, Str(<<"e","m","p","t","y","D","i","r">>))>>))>>))>>)) }

ChartDirs ==
    [chart_yaml : ChartYamls, templates : TemplateDirs, values_yaml : ValuesYamls]

EmptyChartDir ==
    [chart_yaml |-> Missing,
     templates |-> [dir |-> "missing", common |-> [exists |-> FALSE, text |-> <<>>],
                    notes |-> FALSE],
     values_yaml |-> Missing]

InitChart ==
    /\ tool = "chart"
    /\ \/ argc \in {1, 3} /\ pathKind = "dir" /\ file = EmptyChartDir
       \/ argc = 2 /\ pathKind \in {"missing", "file"} /\ file = EmptyChartDir
       \/ argc = 2 /\ pathKind = "dir" /\ file \in ChartDirs

(* --------------------------- inputs and runs --------------------------- *)

DockerLinePool ==
    { <<"#"," ","s","y","n","t","a","x","=","d","o","c","k","e","r","/","d","o","c","k","e","r","f","i","l","e",":","1">>,
      <<"F","R","O","M"," ","p","y","t","h","o","n",":","l","a","t","e","s","t">>,
      <<"F","R","O","M"," ","p","y","t","h","o","n",":","3",".","1","2","-","s","l","i","m","-","b","o","o","k","w","o","r","m">>,
      <<"R","U","N"," ","a","p","t","-","g","e","t"," ","i","n","s","t","a","l","l"," ","-","y"," ","c","u","r","l">>,
      <<"R","U","N"," ","a","p","t","-","g","e","t"," ","i","n","s","t","a","l","l"," ","-","y"," ","c","u","r","l"," ","&","&"," ","r","m"," ","-","r","f"," ","/","v","a","r","/","l","i","b","/","a","p","t","/","l","i","s","t","s","/","*">>,
      <<"A","D","D"," ","a","p","p",".","t","a","r"," ","/","a","p","p">>,
      <<"E","N","V"," ","A","P","I","_","K","E","Y","=","a","b","c">>,
      <<"R","U","N"," ","p","i","p"," ","i","n","s","t","a","l","l"," ","f","l","a","s","k">>,
      <<"R","U","N"," ","c","d"," ","/","a","p","p"," ","&","&"," ","y","a","r","n"," ","i","n","s","t","a","l","l">>,
      <<"R","U","N"," ","u","s","e","r","a","d","d"," ","-","u"," ","1","0","0","0"," ","a","p","p">>,
      <<"R","U","N"," ","g","r","o","u","p","a","d","d"," ","-","g"," ","2","0","0","0","0"," ","g","r","p"," ","&","&"," ","a","d","d","u","s","e","r"," ","a","p","p">>,
      <<"U","S","E","R"," ","r","o","o","t">>,
      <<"U","S","E","R"," ","a","p","p">>,
      <<>> }

\* FROM lines of the shapes an image reference takes
FromLinePool ==
    { <<"F","R","O","M"," ","p","y","t","h","o","n",":","l","a","t","e","s","t">>,
      <<"F","R","O","M"," ","p","y","t","h","o","n">>,
      <<"F","R","O","M"," ","g","h","c","r",".","i","o","/","o","r","g","/","a","p","p",":","l","a","t","e","s","t">>,
      <<"F","R","O","M"," ","o","r","g","/","a","p","p",":","l","a","t","e","s","t">>,
      <<"F","R","O","M"," ","p","y","t","h","o","n",":","3",".","1","2">>,
      <<"#"," ","F","R","O","M"," ","p","y","t","h","o","n",":","l","a","t","e","s","t">> }

FromDocs == {Join(ls, <<"\n">>) : ls \in SeqsUpTo(FromLinePool, MaxLines)}

\* the document of n lines with an install at line a, a cleanup at line c
\* (none when c = 0) and empty lines elsewhere
WindowDoc(n, a, c) ==
    Join([k \in 1..n |->
            IF k = a THEN <<"R","U","N"," ","a","p","t","-","g","e","t"," ","i","n","s","t","a","l","l"," ","-","y"," ","c","u","r","l">>
            ELSE IF k = c THEN <<"R","U","N"," ","r","m"," ","-","r","f"," ","/","v","a","r","/","l","i","b","/","a","p","t","/","l","i","s","t","s","/","*">>
            ELSE <<>>],
         <<"\n">>)

WindowDocs ==
    {WindowDoc(n, a, c) : n \in 1..MaxWindowLines, a \in 1..2, c \in 0..MaxWindowLines}

\* USER lines and a line that is none
UserLinePool ==
    { <<"U","S","E","R"," ","r","o","o","t">>,
      <<"U","S","E","R"," ","a","p","p">>,
      <<"U","S","E","R"," ","n","o","n","r","o","o","t">>,
      <<"R","U","N"," ","m","a","k","e">> }

UserDocs == {Join(ls, <<"\n">>) : ls \in SeqsUpTo(UserLinePool, MaxLines)}

DockerContents ==
    {Join(ls, <<"\n">>) : ls \in SeqsUpTo(DockerLinePool, MaxLines)}
    \cup FromDocs
    \cup WindowDocs
    \cup UserDocs

NoRun ==
    /\ runs = 0
    /\ outcome = "none"
    /\ prevOutcome = "none"
    /\ issues = <<>>
    /\ prevIssues = <<>>
    /\ out = <<>>
    /\ exitCode = 0
    /\ calls = <<>>

InitDockerfile ==
    /\ tool = "dockerfile"
    /\ \/ argc \in {1, 3} /\ pathKind = "file" /\ file = <<>>
       \/ argc = 2 /\ pathKind \in {"missing", "dir"} /\ file = <<>>
       \/ argc = 2 /\ pathKind = "file" /\ file \in DockerContents

Init == NoRun /\ (InitDockerfile \/ InitCompose \/ InitChart)

Next == DockerfileMain \/ ComposeMain \/ ChartMain

Spec == Init /\ [][Next]_vars

(* ------------------------------ properties ----------------------------- *)

Ran == runs > 0

\* the run reached the reporting stage of main()
Reported == Ran /\ outcome \in {"clean", "report"}

HasSeverity(sev) == \E k \in 1..Len(issues) : issues[k].severity = sev

KindsPrinted == {out[k].kind : k \in 1..Len(out)}

\* the run got as far as analysing a Compose document
ComposeAnalysed ==
    Ran /\ tool = "compose" /\ argc = 2 /\ pathKind = "file" /\ file.yaml = "ok"

\* the run got as far as validating a chart directory
ChartValidated == Ran /\ tool = "chart" /\ argc = 2 /\ pathKind = "dir"

\* C1: in each tool, a run that reaches the reporting stage exits 1 if and
\* only if its collection holds an Error diagnostic; Warning and Info
\* diagnostics alone, and the empty collection, exit 0.
C1_ExitCodeIffError ==
    Reported =>
        /\ exitCode \in {0, 1}
        /\ (exitCode = 1) <=> HasSeverity("error")

C1_WarningsOnlyExitZero ==
    /\ Reported
    /\ outcome = "report"
    /\ HasSeverity("warning")
    /\ ~HasSeverity("error")
    /\ exitCode = 0

\* a check of the per-service loop of analyze_compose raises on the document
ComposeCheckFaults ==
    /\ ComposeAnalysed
    /\ file.data.t = "map"
    /\ HasKey(file.data, <<"s","e","r","v","i","c","e","s">>)
    /\ Get(file.data, <<"s","e","r","v","i","c","e","s">>).t = "map"
    /\ \E k \in 1..Len(Get(file.data, <<"s","e","r","v","i","c","e","s">>).v) :
          ServiceIssues(Get(file.data, <<"s","e","r","v","i","c","e","s">>).v[k].k,
                        Get(file.data, <<"s","e","r","v","i","c","e","s">>).v[k].v).fault

\* a check of validate_values raises on the parsed values.yaml
ChartCheckFaults ==
    /\ ChartValidated
    /\ file.values_yaml.yaml = "ok"
    /\ file.values_yaml.data.t = "map"
    /\ ~validate_chart_yaml(file.chart_yaml).fault
    /\ validate_values(file.values_yaml).fault

\* the diagnostics of the Compose services whose checks do not raise
SoundServiceIssues ==
    LET services == Get(file.data, <<"s","e","r","v","i","c","e","s">>).v
    IN  Concat([k \in 1..Len(services) |->
                  IF ServiceIssues(services[k].k, services[k].v).fault THEN <<>>
                  ELSE ServiceIssues(services[k].k, services[k].v).issues])

SyntheticErrors ==
    {k \in 1..Len(issues) : issues[k].severity = "error" /\ issues[k].message = "RuleFault"}

\* C2: when a check raises on a parsed document the run still ends with a
\* report that holds the diagnostics of the other checks and exactly one
\* synthetic Error for the check that raised.
C2_FaultIsolation ==
    (ComposeCheckFaults \/ ChartCheckFaults) =>
        /\ outcome = "report"
        /\ Cardinality(SyntheticErrors) = 1
        /\ ComposeCheckFaults =>
              \A k \in 1..Len(SoundServiceIssues) :
                  \E j \in 1..Len(issues) : issues[j] = SoundServiceIssues[k]
        /\ ChartCheckFaults =>
              \A k \in 1..Len(validate_templates(file.templates).issues) :
                  \E j \in 1..Len(issues) :
                      issues[j] = validate_templates(file.templates).issues[k]

\* a Compose document that is a mapping without the services key
NoServicesKey ==
    ComposeAnalysed /\ file.data.t = "map" /\ ~HasKey(file.data, <<"s","e","r","v","i","c","e","s">>)

\* C3 as stated: a mapping without services yields exactly one diagnostic, an
\* Error at the document root.
C3_ExactlyOneDiagnostic ==
    NoServicesKey =>
        /\ outcome = "report"
        /\ Len(issues) = 1
        /\ issues[1].severity = "error"
        /\ issues[1].location = <<"R","o","o","t">>

\* C3: a mapping without services yields one Error, located at the document
\* root, as the last diagnostic; it is preceded by the deprecated-version
\* Warning (also at the root) exactly when the document has a version key,
\* and by nothing else, whatever the rest of the document holds.
C3_ShortCircuit ==
    NoServicesKey =>
        /\ outcome = "report"
        /\ Len(issues) = (IF HasKey(file.data, <<"v","e","r","s","i","o","n">>) THEN 2 ELSE 1)
        /\ issues[Len(issues)].severity = "error"
        /\ issues[Len(issues)].location = <<"R","o","o","t">>
        /\ issues[Len(issues)].message = "No \"services:\" section found"
        /\ \A k \in 1..(Len(issues) - 1) :
              /\ issues[k].severity = "warning"
              /\ issues[k].location = <<"R","o","o","t">>
              /\ issues[k].message = "Deprecated \"version:\" field found"

C3_VersionThenNoServices ==
    /\ NoServicesKey
    /\ HasKey(file.data, <<"v","e","r","s","i","o","n">>)
    /\ HasKey(file.data, <<"v","o","l","u","m","e","s">>)
    /\ Get(file.data, <<"v","o","l","u","m","e","s">>).t = "null"
    /\ Len(issues) = 2

\* wrong argument count
UsageError == Ran /\ argc # 2

\* the path is missing or, for the Chart tool, is no directory
PathError ==
    /\ Ran
    /\ argc = 2
    /\ pathKind = "missing" \/ (tool = "chart" /\ pathKind # "dir")

\* malformed YAML in the Compose file
ComposeParseError ==
    Ran /\ tool = "compose" /\ argc = 2 /\ pathKind = "file" /\ file.yaml = "invalid"

\* malformed YAML in Chart.yaml or values.yaml
ChartParseError ==
    /\ ChartValidated
    /\ file.chart_yaml.yaml = "invalid" \/ file.values_yaml.yaml = "invalid"

\* the run ended at once with status 1: nothing analysed, no report printed
Aborted ==
    /\ exitCode = 1
    /\ calls = <<>>
    /\ issues = <<>>
    /\ KindsPrinted \cap {"header", "label", "issue", "total", "success"} = {}

InvalidYamlAt(location) ==
    \E k \in 1..Len(issues) :
        /\ issues[k].location = location
        /\ issues[k].severity = "error"
        /\ issues[k].message = "Invalid YAML"

NonMappingRoot ==
    \/ ComposeAnalysed /\ file.data.t # "map"
    \/ ChartValidated /\ file.chart_yaml.yaml = "ok" /\ file.chart_yaml.data.t # "map"

\* C5: a well-formed input whose root is no mapping is rejected as a parse
\* error (a message for the user, status 1), never by an uncaught exception.
C5_NonMappingRootRejected ==
    NonMappingRoot =>
        /\ outcome # "crash"
        /\ exitCode = 1
        /\ tool = "compose" => outcome = "parse"
        /\ tool = "chart" => (outcome = "parse" \/ InvalidYamlAt(<<"C","h","a","r","t",".","y","a","m","l">>))

\* C6: two runs on the same unmodified input end the same way with equal
\* collections: same length, order, location, severity, message, suggestion.
C6_SameCollectionTwice ==
    runs >= 2 => (outcome = prevOutcome /\ issues = prevIssues)

\* the position of a check in the Dockerfile catalog, by its message
DockerRuleRank(message) ==
    CASE message = "Missing BuildKit syntax directive" -> 1
      [] message = "Using ADD instead of COPY" -> 2
      [] message = "Using :latest tag" -> 3
      [] message = "apt-get install without cleanup" -> 4
      [] message = "Potential secret in ARG/ENV" -> 5
      [] message = "pip install without cache mount" -> 6
      [] message = "npm/yarn install without cache mount" -> 7
      [] message = "apt-get without cache mount" -> 8
      [] message = "Using RUN cd instead of WORKDIR" -> 9
      [] message = "Base image pins OS version" -> 10
      [] message = "User created with UID (< 10000)" -> 11
      [] message = "Group created with GID (< 10000)" -> 12
      [] message = "User/group created without explicit UID/GID" -> 13
      [] message = "Running as root user" -> 14
      [] message = "No non-root USER defined" -> 15

\* the position of a check in the Compose catalog, by its message
ComposeRuleRank(message) ==
    CASE message = "Deprecated \"version:\" field found" -> 1
      [] message = "No \"services:\" section found" -> 2
      [] message = "Using container_name" -> 3
      [] message = "Using :latest or untagged image" -> 4
      [] message = "No healthcheck defined" -> 5
      [] message = "No restart policy defined" -> 6
      [] message = "Potential secret in environment variable" -> 7
      [] message = "No resource limits defined" -> 8
      [] message = "Service runs in privileged mode" -> 9
      [] message = "Using network_mode: host" -> 10
      [] message = "Unused volumes defined" -> 11

RuleRank(d) ==
    IF tool = "dockerfile" THEN DockerRuleRank(d.message) ELSE ComposeRuleRank(d.message)

\* the unit a Dockerfile diagnostic is about: its line; 0 for the check made
\* before the loop over the lines, one past the last line for the check after it
DockerUnit(d) ==
    CASE d.message = "Missing BuildKit syntax directive" -> 0
      [] d.message = "No non-root USER defined" -> Len(DockerLines(file)) + 1
      [] OTHER -> d.line_num

\* the unit a Compose diagnostic is about: the position of its service in
\* the document; 0 for the root checks, one past the last service for volumes
ComposeUnit(d) ==
    LET services == Get(file.data, <<"s","e","r","v","i","c","e","s">>).v
    IN  CASE d.location = <<"R","o","o","t">> -> 0
          [] d.location = <<"v","o","l","u","m","e","s">> -> Len(services) + 1
          [] OTHER -> CHOOSE k \in 1..Len(services) :
                          \/ d.location = <<"s","e","r","v","i","c","e","s",".">> \o services[k].k
                          \/ StartsWith(d.location, <<"s","e","r","v","i","c","e","s",".">> \o services[k].k \o <<".">>)

UnitOf(d) == IF tool = "dockerfile" THEN DockerUnit(d) ELSE ComposeUnit(d)

\* a Dockerfile or Compose run that returned a non-empty collection
LineOrServiceReport == Reported /\ outcome = "report" /\ tool \in {"dockerfile", "compose"}

PrintedIssues ==
    LET lines == SelectSeq(out, LAMBDA l : l.kind = "issue")
    IN  [k \in 1..Len(lines) |-> lines[k].arg]

LabelSeverity(label) ==
    CASE label = "Errors" -> "error"
      [] label = "Warnings" -> "warning"
      [] label = "Suggestions" -> "info"

SeverityRank(sev) == CASE sev = "error" -> 1 [] sev = "warning" -> 2 [] sev = "info" -> 3

\* the label under which line p of the output is printed (0 if none)
LabelAbove(p) ==
    LET labels == {q \in 1..(p - 1) : out[q].kind = "label"}
    IN  IF labels = {} THEN 0 ELSE Max(labels)

CountOf(sev) == Cardinality({k \in 1..Len(issues) : issues[k].severity = sev})

\* C8: the report prints every diagnostic of a non-empty collection once,
\* under the label of its severity; the groups come in the order Errors,
\* Warnings, Info, an empty group is not printed, each group keeps the order
\* of the collection, and the three counts of the totals line add up to the
\* size of the collection.
C8_ReportPartition ==
    (Reported /\ outcome = "report") =>
        /\ Len(PrintedIssues) = Len(issues)
        /\ \A sev \in {"error", "warning", "info"} :
              SelectSeq(PrintedIssues, LAMBDA d : d.severity = sev)
                  = SelectSeq(issues, LAMBDA d : d.severity = sev)
        /\ \A p \in 1..Len(out) :
              /\ out[p].kind = "issue" =>
                    /\ LabelAbove(p) # 0
                    /\ LabelSeverity(out[LabelAbove(p)].arg) = out[p].arg.severity
              /\ out[p].kind = "label" =>
                    /\ out[p + 1].kind = "issue"
                    /\ LabelAbove(p) # 0 =>
                          SeverityRank(LabelSeverity(out[LabelAbove(p)].arg))
                              < SeverityRank(LabelSeverity(out[p].arg))
        /\ out[Len(out)].kind = "total"
        /\ out[Len(out)].arg = <<CountOf("error"), CountOf("warning"), CountOf("info")>>
        /\ out[Len(out)].arg[1] + out[Len(out)].arg[2] + out[Len(out)].arg[3] = Len(issues)

C8_ThreeGroupsPrinted ==
    /\ Reported
    /\ outcome = "report"
    /\ HasSeverity("error") /\ HasSeverity("warning") /\ HasSeverity("info")
    /\ CountOf("warning") >= 2
    /\ Len(SelectSeq(out, LAMBDA l : l.kind = "label")) = 3

\* C9 as stated: in each tool a run with an empty collection prints the
\* success line and nothing else, and exits 0.
C9_OnlySuccessLine ==
    (Reported /\ outcome = "clean") =>
        /\ Len(out) = 1
        /\ out[1].kind = "success"
        /\ exitCode = 0

\* C9: a run with an empty collection exits 0 and prints one success line as
\* its last line, with no group label, no diagnostic and no totals; in the
\* Dockerfile and Compose tools that line is the whole output, in the Chart
\* tool the header printed before the validation precedes it.
C9_CleanRun ==
    (Reported /\ outcome = "clean") =>
        /\ exitCode = 0
        /\ issues = <<>>
        /\ out[Len(out)].kind = "success"
        /\ KindsPrinted \cap {"label", "issue", "total"} = {}
        /\ tool \in {"dockerfile", "compose"} => Len(out) = 1
        /\ tool = "chart" => (Len(out) = 2 /\ out[1].kind = "header")

C9_CleanChart ==
    /\ Reported
    /\ outcome = "clean"
    /\ tool = "chart"
    /\ Len(out) = 2

\* a chart directory without Chart.yaml
NoChartYaml == ChartValidated /\ file.chart_yaml.yaml = "missing"

IssuesAt(location) == SelectSeq(issues, LAMBDA d : d.location = location)

\* C10: without Chart.yaml the Chart.yaml validator yields exactly one
\* Error at Chart.yaml and the templates validator and the values validator
\* are still called after it, each reporting its own Error when its
\* directory or file is missing.
C10_ValidatorsIndependent ==
    NoChartYaml =>
        /\ calls = <<"validate_chart_yaml", "validate_templates", "validate_values">>
        /\ outcome \in {"report", "crash"}
        /\ file.values_yaml.yaml = "missing" => outcome = "report"
        /\ outcome = "report" =>
              /\ Len(IssuesAt(<<"C","h","a","r","t",".","y","a","m","l">>)) = 1
              /\ issues[1].location = <<"C","h","a","r","t",".","y","a","m","l">>
              /\ issues[1].severity = "error"
              /\ issues[1].message = "Chart.yaml not found"
              /\ file.templates.dir = "missing" =>
                    \E k \in 2..Len(issues) :
                        /\ issues[k].location = <<"t","e","m","p","l","a","t","e","s","/">>
                        /\ issues[k].severity = "error"
                        /\ issues[k].message = "templates directory not found"
              /\ file.values_yaml.yaml = "missing" =>
                    /\ issues[Len(issues)].location = <<"v","a","l","u","e","s",".","y","a","m","l">>
                    /\ issues[Len(issues)].severity = "error"
                    /\ issues[Len(issues)].message = "values.yaml not found"

C10_ThreeMissingFileErrors ==
    /\ NoChartYaml
    /\ file.templates.dir = "missing"
    /\ file.values_yaml.yaml = "missing"
    /\ outcome = "report"
    /\ Len(issues) = 3
    /\ exitCode = 1


\* the keys of a mapping
KeysOf(m) == {m.v[k].k : k \in 1..Len(m.v)}

\* the document of scenario B: a version key, no top-level volumes, and one
\* service that has image app:latest and none of the keys the checks read
ScenarioB ==
    /\ ComposeAnalysed
    /\ file.data.t = "map"
    /\ HasKey(file.data, <<"v","e","r","s","i","o","n">>)
    /\ HasKey(file.data, <<"s","e","r","v","i","c","e","s">>)
    /\ ~HasKey(file.data, <<"v","o","l","u","m","e","s">>)
    /\ LET services == Get(file.data, <<"s","e","r","v","i","c","e","s">>)
       IN  /\ services.t = "map"
           /\ Len(services.v) = 1
           /\ services.v[1].v.t = "map"
           /\ StrEq(GetOr(services.v[1].v, <<"i","m","a","g","e">>, Null), <<"a","p","p",":","l","a","t","e","s","t">>)
           /\ KeysOf(services.v[1].v)
                 \cap {<<"h","e","a","l","t","h","c","h","e","c","k">>, <<"r","e","s","t","a","r","t">>, <<"d","e","p","l","o","y">>, <<"c","o","n","t","a","i","n","e","r","_","n","a","m","e">>,
                       <<"e","n","v","i","r","o","n","m","e","n","t">>, <<"p","r","i","v","i","l","e","g","e","d">>, <<"n","e","t","w","o","r","k","_","m","o","d","e">>, <<"c","o","m","m","a","n","d">>} = {}

\* the diagnostics of the collection with the given severity and message
IssuesLike(sev, msg) ==
    {k \in 1..Len(issues) : issues[k].severity = sev /\ issues[k].message = msg}

DockerAnalysed == Ran /\ tool = "dockerfile" /\ argc = 2 /\ pathKind = "file"

\* line i of the analysed Dockerfile, stripped
StrippedLine(i) == Strip(DockerLines(file)[i])

\* line i is an instruction line: neither empty nor a comment
InstructionLine(i) == StrippedLine(i) # <<>> /\ ~StartsWith(StrippedLine(i), <<"#">>)

FromLine(i) == InstructionLine(i) /\ StartsWith(Upper(StrippedLine(i)), <<"F","R","O","M"," ">>)

\* the base-image reference of a FROM line: the first word after FROM
BaseImageRef(i) ==
    LET words == SelectSeq(Split(StrippedLine(i), " "), LAMBDA w : w # <<>>)
    IN  words[2]

\* the tag of an image reference, <<>> when it has none: what follows the
\* colon of the last path segment
TagOf(ref) ==
    LET segments == Split(ref, "/")
        last == segments[Len(segments)]
    IN  IF Contains(last, <<":">>) THEN Split(last, ":")[2] ELSE <<>>

FloatingOrUntagged(i) == TagOf(BaseImageRef(i)) \in {<<>>, <<"l","a","t","e","s","t">>}

\* the collection holds the base-image Error at line i
LatestTagErrorAt(i) ==
    \E k \in 1..Len(issues) :
        /\ issues[k].line_num = i
        /\ issues[k].severity = "error"
        /\ issues[k].message = "Using :latest tag"

\* C12: every non-comment FROM line whose base-image reference has the tag
\* latest or no tag produces an Error at that line, whatever the shape of the
\* image name (registry host with dots, path); a FROM line pinned to another
\* tag produces no such Error.
C12_BaseImageRule ==
    DockerAnalysed =>
        \A i \in 1..Len(DockerLines(file)) :
            FromLine(i) => (LatestTagErrorAt(i) <=> FloatingOrUntagged(i))

\* line i installs with apt-get and has no cleanup of its own
InstallWithoutCleanup(i) ==
    /\ InstructionLine(i)
    /\ Contains(StrippedLine(i), <<"a","p","t","-","g","e","t"," ","i","n","s","t","a","l","l">>)
    /\ ~Contains(StrippedLine(i), <<"r","m"," ","-","r","f"," ","/","v","a","r","/","l","i","b","/","a","p","t","/","l","i","s","t","s">>)

\* line j of the analysed Dockerfile holds the cleanup
CleanupAt(j) == Contains(DockerLines(file)[j], <<"r","m"," ","-","r","f"," ","/","v","a","r","/","l","i","b","/","a","p","t","/","l","i","s","t","s">>)

LastLine == Len(DockerLines(file))

AptWarningAt(i) ==
    \E k \in 1..Len(issues) :
        /\ issues[k].line_num = i
        /\ issues[k].severity = "warning"
        /\ issues[k].message = "apt-get install without cleanup"

\* C13 as stated: the Warning at an install line i is emitted exactly when
\* no line of the window [i, i+10), clipped to the document, holds the
\* cleanup; a cleanup first found at line i+10 does not suppress it.
C13_WindowFromInstallLine ==
    DockerAnalysed =>
        \A i \in 1..LastLine :
            InstallWithoutCleanup(i) =>
                (AptWarningAt(i) <=> ~\E j \in i..Min({i + 9, LastLine}) : CleanupAt(j))

\* C13: the Warning at an install line i is emitted exactly when none of the
\* ten lines that follow it, lines i+1 to i+10 clipped to the document, holds
\* the cleanup; a cleanup first found at line i+11 or later does not
\* suppress it, and lines before i never do.
C13_WindowAfterInstallLine ==
    DockerAnalysed =>
        \A i \in 1..LastLine :
            InstallWithoutCleanup(i) =>
                (AptWarningAt(i) <=> ~\E j \in (i + 1)..Min({i + 10, LastLine}) : CleanupAt(j))

C13_CleanupTenLinesLater ==
    /\ DockerAnalysed
    /\ \E i \in 1..LastLine :
          /\ InstallWithoutCleanup(i)
          /\ i + 10 <= LastLine
          /\ CleanupAt(i + 10)
          /\ \A j \in 1..LastLine : CleanupAt(j) => j = i + 10
          /\ ~AptWarningAt(i)

\* the services of the analysed Compose document, each with a mapping as
\* its configuration
ServicesAreMappings ==
    /\ ComposeAnalysed
    /\ file.data.t = "map"
    /\ HasKey(file.data, <<"s","e","r","v","i","c","e","s">>)
    /\ Get(file.data, <<"s","e","r","v","i","c","e","s">>).t = "map"
    /\ \A k \in 1..Len(Get(file.data, <<"s","e","r","v","i","c","e","s">>).v) :
          Get(file.data, <<"s","e","r","v","i","c","e","s">>).v[k].v.t = "map"

ServiceItems == Get(file.data, <<"s","e","r","v","i","c","e","s">>).v

\* the text after the first "=" of a KEY=value entry, empty without one
AfterEquals(item) ==
    LET eqs == {k \in 1..Len(item) : item[k] = "="}
    IN  IF eqs = {} THEN <<>> ELSE SubSeq(item, Min(eqs) + 1, Len(item))

\* the entries, as name and value, of the environment of a service
\* configuration: of its mapping form or of its KEY=value list form
EnvEntries(config) ==
    IF ~HasKey(config, <<"e","n","v","i","r","o","n","m","e","n","t">>) THEN <<>>
    ELSE LET env == Get(config, <<"e","n","v","i","r","o","n","m","e","n","t">>)
         IN  IF env.t = "map" THEN env.v
             ELSE IF env.t = "list" /\ \A k \in 1..Len(env.v) : env.v[k].t = "str"
             THEN [k \in 1..Len(env.v) |->
                     Item(Split(env.v[k].v, "=")[1], Str(AfterEquals(env.v[k].v)))]
             ELSE <<>>

SecretShaped(name) ==
    \E word \in {<<"P","A","S","S","W","O","R","D">>, <<"S","E","C","R","E","T">>, <<"T","O","K","E","N">>, <<"K","E","Y">>} : Contains(Upper(name), word)

\* the value is a variable reference: it starts with the sigil
VariableReference(value) == value.t = "str" /\ StartsWith(value.v, <<"$">>)

SecretErrorAt(location) ==
    \E k \in 1..Len(issues) :
        /\ issues[k].severity = "error"
        /\ issues[k].location = location
        /\ issues[k].message = "Potential secret in environment variable"

\* C14: for every service and every entry of its environment (mapping or
\* KEY=value list) whose name contains PASSWORD, SECRET, TOKEN or KEY in any
\* case, an Error at services.<service>.environment.<name> is emitted exactly
\* when the value does not start with "$"; other entries produce no such
\* Error.
C14_SecretRule ==
    ServicesAreMappings =>
        \A s \in 1..Len(ServiceItems) :
            \A e \in 1..Len(EnvEntries(ServiceItems[s].v)) :
                LET entry == EnvEntries(ServiceItems[s].v)[e]
                    location == <<"s","e","r","v","i","c","e","s",".">> \o ServiceItems[s].k
                                    \o <<".","e","n","v","i","r","o","n","m","e","n","t",".">> \o entry.k
                IN  SecretErrorAt(location)
                        <=> (SecretShaped(entry.k) /\ ~VariableReference(entry.v))

\* the document declares top-level volumes and its services are mappings
DeclaresVolumes ==
    /\ ServicesAreMappings
    /\ HasKey(file.data, <<"v","o","l","u","m","e","s">>)
    /\ Get(file.data, <<"v","o","l","u","m","e","s">>).t = "map"

DeclaredNames == KeysOf(Get(file.data, <<"v","o","l","u","m","e","s">>))

\* the declared volume a mount entry refers to: the source of a short entry
\* source:target that is no path literal, or the source of a long entry that
\* is not a bind mount
MountReference(mount) ==
    IF mount.t = "str"
    THEN LET source == Split(mount.v, ":")[1]
         IN  IF Contains(mount.v, <<":">>) /\ source # <<>> /\ source[1] \notin {".", "/"}
             THEN {source}
             ELSE {}
    ELSE IF /\ mount.t = "map"
            /\ HasKey(mount, <<"s","o","u","r","c","e">>)
            /\ Get(mount, <<"s","o","u","r","c","e">>).t = "str"
            /\ ~StrEq(GetOr(mount, <<"t","y","p","e">>, Null), <<"b","i","n","d">>)
    THEN {Get(mount, <<"s","o","u","r","c","e">>).v}
    ELSE {}

MountsOf(config) ==
    IF HasKey(config, <<"v","o","l","u","m","e","s">>) /\ Get(config, <<"v","o","l","u","m","e","s">>).t = "list"
    THEN Get(config, <<"v","o","l","u","m","e","s">>).v
    ELSE <<>>

\* the names the mounts of one service configuration refer to
ServiceReferences(config) ==
    UNION {MountReference(MountsOf(config)[m]) : m \in 1..Len(MountsOf(config))}

ReferencedNames ==
    UNION {ServiceReferences(ServiceItems[s].v) : s \in 1..Len(ServiceItems)}

UnusedInfos ==
    {k \in 1..Len(issues) : issues[k].location = <<"v","o","l","u","m","e","s">> /\ issues[k].severity = "info"}

\* the names a message lists, separated by ", "
NamesListed(detail) == {Strip(Split(detail, ",")[k]) : k \in 1..Len(Split(detail, ","))}

\* C15: when the document declares top-level volumes, exactly one Info at
\* `volumes` is emitted if and only if some declared volume is referenced by
\* no service mount, and its message names exactly those volumes; path
\* literals and bind mounts never count as references.
C15_UnusedVolumes ==
    DeclaresVolumes =>
        IF DeclaredNames \ ReferencedNames # {}
        THEN /\ Cardinality(UnusedInfos) = 1
             /\ \A k \in UnusedInfos :
                   NamesListed(issues[k].detail) = DeclaredNames \ ReferencedNames
        ELSE UnusedInfos = {}

\* line i is a USER instruction whose user, the word after USER up to a
\* ":group" part, is not root
NamesNonRootUser(i) ==
    /\ InstructionLine(i)
    /\ StartsWith(Upper(StrippedLine(i)), <<"U","S","E","R"," ">>)
    /\ LET words == SelectSeq(Split(StrippedLine(i), " "), LAMBDA w : w # <<>>)
       IN  Len(words) >= 2 /\ Split(words[2], ":")[1] \notin {<<"r","o","o","t">>, <<"0">>}

NoNonRootUserWarnings ==
    {k \in 1..Len(issues) : issues[k].message = "No non-root USER defined"}

\* C16: the "No non-root USER defined" Warning comes from one check run after
\* the per-line pass: it appears at most once, is the last diagnostic when
\* present, and is present exactly when no USER instruction of the document
\* names a non-root user, however many "Running as root user" warnings the
\* lines produced.
C16_WholeDocumentUserRule ==
    DockerAnalysed =>
        /\ Cardinality(NoNonRootUserWarnings) <= 1
        /\ \A k \in NoNonRootUserWarnings :
              k = Len(issues) /\ issues[k].severity = "warning"
        /\ (NoNonRootUserWarnings # {})
              <=> ~\E i \in 1..LastLine : NamesNonRootUser(i)
====
